---- MODULE Spec2Model ----
(***************************************************************************)
(* A model of the Starmap scheduler of openquake.baselib.parallel: the     *)
(* orchestrator (Starmap.submit_all, Starmap._loop, IterResult._iter), the *)
(* worker side (safely_call, Result.new) and the unwrapping of result      *)
(* envelopes (Result.get).                                                 *)
(*                                                                         *)
(* A job is one unit of work: the chunks of task_args are the jobs         *)
(* 1..MaxChunks, the subtasks discovered during the run are the jobs       *)
(* MaxChunks+1..MaxChunks+MaxSub.  The PULL socket of the orchestrator is  *)
(* modelled as one FIFO per pushing worker (zmq keeps the order of the     *)
(* messages of one connection and interleaves the connections).            *)
(***************************************************************************)
EXTENDS Integers, Sequences, FiniteSets, Bags, TLC

\* ---------------------------------------------------------------- bounds
MaxChunks == 2      \* chunks of one run
MaxCores == 2       \* values of num_cores, besides None
MaxYield == 1       \* values or subtasks one task yields before it ends
MaxSub == 1         \* subtasks discovered in one run
MaxValues == 2      \* values produced by all the tasks of one run
MaxStale == 1       \* envelopes of another run arriving on the socket
MaxPools == 2       \* pools created in one session
MaxClients == 2     \* dask clients created in one session
MaxTasks == 2       \* tasks of a Starmap instance of the session
MaxExtra == 2       \* arguments after the sequence in the args of apply
MaxItems == 3       \* elements of a sequence given to a splitter
MaxWeight == 2      \* weight of one element
MaxHint == 2        \* target number of chunks of the eager split
MaxRate == 2        \* measured time per unit of weight in split_task
MaxDuration == 2    \* duration budget of split_task
MaxResults == 3     \* envelopes an IterResult iterates over
MaxInt == 1         \* largest integer in a payload
MaxCalc == 2        \* largest calculation ID in a directory
MaxImts == 2        \* pairs (imt, gmf) given to compute

Jobs == 1..(MaxChunks + MaxSub)

\* the run identifier of this scheduler and the one of a previous run
ThisRun == "job_2"
OtherRun == "job_1"

VARIABLES
    \* ---- Starmap instance
    num_cores,   \* <<>> for None, <<n>> for n
    task_args,   \* the chunks, a sequence of jobs
    calc_id,     \* self.calc_id
    queue,       \* self.queue
    tasks,       \* self.tasks: the job of every submitted task
    task_no,     \* self.task_no
    socket,      \* hasattr(self, 'socket')
    todo,        \* self.todo
    pc,          \* "new", "ready", "recv", "unwrap", "done", "raised"
    cur,         \* the Result that _loop handed to IterResult._iter
    yielded,     \* the values the caller of the iteration got, in order
    raised,      \* the exception the caller of the iteration got
    \* ---- workers (one safely_call per submitted job)
    wpc,         \* "idle", "start", "running", "exhausted", "ended", "crashed"
    gcount,      \* the count of the for loop of a running safely_call
    chan,        \* envelopes pushed by each worker and not yet pulled
    staleLeft,   \* envelopes of the other run that may still arrive
    nsub,        \* subtasks the tasks created so far
    nval,        \* values the tasks produced so far
    \* ---- history
    sent,        \* every call of the backend: [no |-> task_no, job |-> job]
    pushed,      \* every envelope pushed by the invocation SpecCall follows
    lastRecv,    \* the last envelope pulled by _loop
    arrived,     \* the success values pulled from this run, in arrival order
    ended,       \* jobs whose TASK_ENDED was pulled
    \* ---- Result.get on its own
    getArg,      \* the envelope given to Result.get
    getOut,      \* what Result.get did
    \* ---- one call of a function on its own (Result.new, Starmap.apply)
    fnArg,       \* the arguments of the call
    fnOut,       \* <<>> before the call, <<what the call did>> after it
    \* ---- the session (class attributes of Starmap) and two instances
    session,     \* OQ_DISTRIBUTE, Starmap.distribute, .pool, .pids, .dask_client
    insts,       \* the Starmap instances built in the session
    net,         \* the PULL socket bound to each port: envelopes not pulled
    lastOp       \* the last operation of the session

starmapVars == <<num_cores, task_args, calc_id, queue, tasks, task_no, socket,
                 todo, pc, cur, yielded, raised>>
workerVars == <<wpc, gcount, chan, staleLeft, nsub, nval>>
historyVars == <<sent, pushed, lastRecv, arrived, ended>>
sessionVars == <<session, insts, net, lastOp>>
getVars == <<getArg, getOut, fnArg, fnOut, sessionVars>>
vars == <<starmapVars, workerVars, historyVars, getVars>>

\* ------------------------------------------------------------- sequences
Last(s) == s[Len(s)]
Front(s) == SubSeq(s, 1, Len(s) - 1)
Min(a, b) == IF a < b THEN a ELSE b

\* ---------------------------------------------------------------- values
\* A Python value: its class, and what tells two values of a class apart
\* (the job and the count for a task output, the job of a subtask tuple,
\* the text of an exception).
Value(cls, j, c, text) == [cls |-> cls, j |-> j, c |-> c, text |-> text]
NoneVal == Value("NoneType", 0, 0, "")

\* the exception classes of the model and their base class
ExcClasses == {"ValueError", "LookupError", "KeyError", "KeyErrorSubclass",
               "RuntimeError", "MemoryError", "OverflowError", "TypeError"}
Base(cls) ==
    CASE cls = "KeyErrorSubclass" -> "KeyError"
      [] cls = "KeyError" -> "LookupError"
      [] cls = "OverflowError" -> "ArithmeticError"
      [] cls = "KeyboardInterrupt" -> "BaseException"
      [] cls = "Exception" -> "BaseException"
      [] OTHER -> "Exception"

RECURSIVE issubclass(_, _)
issubclass(cls, of) ==
    IF cls = of THEN TRUE
    ELSE IF cls = "BaseException" THEN FALSE
    ELSE issubclass(Base(cls), of)

\* str(exc): the text of the exception; KeyError.__str__ gives the repr of
\* the key, i.e. the text between quotes
str(val) ==
    IF issubclass(val.cls, "KeyError") THEN <<"'", val.text, "'">>
    ELSE <<val.text>>

\* ------------------------------------------------------------- envelopes
\* Result.__init__ (mon is represented by its calc_id and its task)
NoEnvelope == [val |-> NoneVal, calc |-> "", job |-> 0, tb_str |-> "",
               msg |-> "", count |-> 0, func_args |-> 0]

Result(val, calc, job, tb_str, msg, count) ==
    [val |-> val, calc |-> calc, job |-> job, tb_str |-> tb_str, msg |-> msg,
     count |-> count,
     func_args |-> IF val.cls = "functuple" THEN val.j ELSE 0]

\* Result.get: a record saying what was raised or what was returned
Returned(val) == [raises |-> FALSE, cls |-> "", msg |-> <<>>, val |-> val]
Raised(cls, msg) == [raises |-> TRUE, cls |-> cls, msg |-> msg, val |-> NoneVal]

Result_get_no_remap(res) ==
    IF res.tb_str # ""
    THEN Raised(res.val.cls,
                <<"\n", res.tb_str, res.val.cls, ": ">> \o str(res.val))
    ELSE Returned(res.val)

Result_get_by_msg(res) ==
    IF res.msg # ""
    THEN Raised(res.val.cls,
                <<"\n", res.tb_str, res.val.cls, ": ">> \o str(res.val))
    ELSE Returned(res.val)

Result_get(res) ==
    LET val == res.val IN
    IF res.tb_str # ""
    THEN LET etype == val.cls
             msg == <<"\n", res.tb_str, etype, ": ">> \o str(val)
         IN IF issubclass(etype, "KeyError")
            THEN Raised("RuntimeError", msg)
            ELSE Raised(etype, msg)
    ELSE Returned(val)

\* func(*args) inside Result.new: the class of the exception it raised
\* ("" when it returned) and the exception or the value returned
func_call(outcome, job, count, sub) ==
    CASE outcome = "stop" ->
           [raises |-> "StopIteration", val |-> NoneVal]
      [] outcome = "raise" ->
           [raises |-> "ValueError",
            val |-> Value("ValueError", job, count, "x")]
      [] outcome = "interrupt" ->
           [raises |-> "KeyboardInterrupt",
            val |-> Value("KeyboardInterrupt", job, count, "")]
      [] outcome = "subtask" ->
           [raises |-> "", val |-> Value("functuple", sub, 0, "")]
      [] outcome = "none" ->
           [raises |-> "", val |-> NoneVal]
      [] outcome = "tuple" ->
           [raises |-> "", val |-> Value("tuple", job, count, "")]
      [] outcome = "emptytuple" ->
           [raises |-> "", val |-> Value("emptytuple", 0, 0, "")]
      [] OTHER ->
           [raises |-> "", val |-> Value("dict", job, count, "")]

\* Result.__init__: isinstance(val, tuple) and callable(val[0]) raises
\* IndexError for the empty tuple
Result_init_raises(val) ==
    IF val.cls = "emptytuple" THEN "IndexError" ELSE ""

\* Result.new: the class of the exception that leaves Result.new, "" when
\* it returns an envelope. StopIteration and the other subclasses of
\* Exception are caught; the envelope of a returned value is built in the
\* else clause, outside the try.
Result_new_raises(outcome, job, count, sub) ==
    LET did == func_call(outcome, job, count, sub) IN
    IF did.raises # ""
    THEN IF issubclass(did.raises, "Exception") THEN "" ELSE did.raises
    ELSE Result_init_raises(did.val)

\* Result.new(next, (gobj,), mon, count): outcome is what next(gobj) did;
\* the envelope returned when Result_new_raises is ""
Result_new(outcome, calc, job, count, sub) ==
    LET did == func_call(outcome, job, count, sub) IN
    IF did.raises = "StopIteration"
    THEN Result(NoneVal, calc, job, "", "TASK_ENDED", 0)
    ELSE IF did.raises # ""
    THEN Result(did.val, calc, job, "traceback", "", count)
    ELSE Result(did.val, calc, job, "", "", count)

\* check_mem_usage: the MemoryError, the warning or nothing
check_mem_usage(used) ==
    CASE used = "above_hard" -> "MemoryError"
      [] used = "above_soft" -> "Using over soft_mem_limit of the memory"
      [] OTHER -> ""

\* ---------------------------------------------------------- orchestrator
\* The fields of the Starmap instance that submit and _loop change.
Self == [queue |-> queue, tasks |-> tasks, task_no |-> task_no,
         socket |-> socket, todo |-> todo, sent |-> sent]

\* Starmap.submit: bind the socket the first time, call the backend with
\* self.task_no, then increment self.task_no and append to self.tasks
Starmap_submit_same_no(self, job) ==
    [self EXCEPT !.socket = TRUE,
                 !.sent = Append(@, [no |-> self.task_no, job |-> job]),
                 !.tasks = Append(@, job)]

Starmap_submit(self, job) ==
    [self EXCEPT !.socket = TRUE,
                 !.sent = Append(@, [no |-> self.task_no, job |-> job]),
                 !.task_no = @ + 1,
                 !.tasks = Append(@, job)]

\* for args in ...: self.submit(*args)
RECURSIVE submit_each(_, _)
submit_each(self, jobs) ==
    IF jobs = <<>> THEN self
    ELSE submit_each(Starmap_submit(self, Head(jobs)), Tail(jobs))

\* self.queue[:self.num_cores] and self.queue[self.num_cores:]
first_args(q, n) == SubSeq(q, 1, Min(n, Len(q)))
rest_queue_untrimmed(q, n) == q
rest_queue(q, n) == SubSeq(q, Min(n, Len(q)) + 1, Len(q))

\* The new fields of the instance; every job given to the backend by this
\* step starts its safely_call.
Install(self) ==
    /\ queue' = self.queue
    /\ tasks' = self.tasks
    /\ task_no' = self.task_no
    /\ socket' = self.socket
    /\ todo' = self.todo
    /\ sent' = self.sent
    /\ wpc' = [j \in Jobs |->
                 IF \E i \in (Len(sent) + 1)..Len(self.sent) :
                        self.sent[i].job = j
                 THEN "start" ELSE wpc[j]]

\* Starmap.submit_all: submit every task, or fill the queue
Starmap_submit_all ==
    /\ pc = "new"
    /\ IF num_cores = <<>>
       THEN Install(submit_each(Self, task_args))
       ELSE Install([Self EXCEPT !.queue = task_args])
    /\ pc' = "ready"
    /\ UNCHANGED <<num_cores, task_args, calc_id, cur, yielded, raised>>
    /\ UNCHANGED <<gcount, chan, staleLeft, nsub, nval>>
    /\ UNCHANGED <<pushed, lastRecv, arrived, ended>>
    /\ UNCHANGED getVars

loop_prologue_binds_socket(self) ==
    [self EXCEPT !.socket = TRUE, !.todo = Len(self.tasks)]

\* Starmap._loop up to its while loop (the first next() of the iteration)
loop_prologue(self) ==
    LET s == IF self.queue # <<>>
             THEN submit_each(
                      [self EXCEPT !.queue = rest_queue(@, num_cores[1])],
                      first_args(self.queue, num_cores[1]))
             ELSE self
    IN  IF s.socket THEN [s EXCEPT !.todo = Len(s.tasks)] ELSE s

Starmap_loop_start ==
    /\ pc = "ready"
    /\ LET s == loop_prologue(Self) IN
         /\ Install(s)
         /\ pc' = IF s.socket THEN "recv" ELSE "done"
    /\ UNCHANGED <<num_cores, task_args, calc_id, cur, yielded, raised>>
    /\ UNCHANGED <<gcount, chan, staleLeft, nsub, nval>>
    /\ UNCHANGED <<pushed, lastRecv, arrived, ended>>
    /\ UNCHANGED getVars

\* The if/elif chain of the while loop of Starmap._loop
branch_ended_first(res, cid) ==
    IF res.msg = "TASK_ENDED" THEN "ended"
    ELSE IF cid # res.calc THEN "discard"
    ELSE IF res.msg # "" THEN "warn"
    ELSE IF res.func_args # 0 THEN "subtask"
    ELSE "yield"

branch_yields_warnings(res, cid) ==
    IF cid # res.calc THEN "discard"
    ELSE IF res.msg = "TASK_ENDED" THEN "ended"
    ELSE IF res.func_args # 0 THEN "subtask"
    ELSE "yield"

branch(res, cid) ==
    IF cid # res.calc THEN "discard"
    ELSE IF res.msg = "TASK_ENDED" THEN "ended"
    ELSE IF res.msg # "" THEN "warn"
    ELSE IF res.func_args # 0 THEN "subtask"
    ELSE "yield"

\* The TASK_ENDED branch: up to two queued tasks are submitted, the
\* counter is incremented for the second one; with an empty queue the
\* counter is decremented.
task_ended_always_decrements(self) ==
    IF self.queue # <<>>
    THEN [Starmap_submit([self EXCEPT !.queue = Front(@)], Last(self.queue))
            EXCEPT !.todo = @ - 1]
    ELSE [self EXCEPT !.todo = @ - 1]

task_ended_never_increments(self) ==
    IF self.queue # <<>>
    THEN LET s1 == Starmap_submit([self EXCEPT !.queue = Front(@)],
                                  Last(self.queue))
         IN  IF s1.queue # <<>>
             THEN Starmap_submit([s1 EXCEPT !.queue = Front(@)],
                                 Last(s1.queue))
             ELSE s1
    ELSE [self EXCEPT !.todo = @ - 1]

task_ended(self) ==
    IF self.queue # <<>>
    THEN LET s1 == Starmap_submit([self EXCEPT !.queue = Front(@)],
                                  Last(self.queue))
         IN  IF s1.queue # <<>>
             THEN LET s2 == Starmap_submit([s1 EXCEPT !.queue = Front(@)],
                                           Last(s1.queue))
                  IN  [s2 EXCEPT !.todo = @ + 1]
             ELSE s1
    ELSE [self EXCEPT !.todo = @ - 1]

\* what the caller of the iteration is to get from this envelope
IsValueEnvelope(res) ==
    res.calc = calc_id /\ res.msg = "" /\ res.func_args = 0 /\ res.tb_str = ""
IsFailureEnvelope(res) ==
    res.calc = calc_id /\ res.msg = "" /\ res.tb_str # ""
IsSubtaskEnvelope(res) ==
    res.calc = calc_id /\ res.msg = "" /\ res.func_args # 0
IsEndedEnvelope(res) ==
    res.calc = calc_id /\ res.msg = "TASK_ENDED"

\* One pass of the while loop for the pulled envelope res; after the
\* TASK_ENDED branch the loop condition may end the loop (log_percent,
\* closing of the socket, self.tasks.clear()).
loop_body(res) ==
    LET b == branch(res, calc_id) IN
    /\ lastRecv' = res
    /\ arrived' = IF IsValueEnvelope(res) THEN Append(arrived, res.val)
                  ELSE arrived
    /\ ended' = IF IsEndedEnvelope(res) THEN ended \cup {res.job} ELSE ended
    /\ CASE b = "ended" ->
              LET s == task_ended(Self) IN
                /\ IF s.todo = 0
                   THEN Install([s EXCEPT !.tasks = <<>>]) /\ pc' = "done"
                   ELSE Install(s) /\ pc' = "recv"
                /\ cur' = cur
         [] b = "subtask" ->
              /\ Install([Self EXCEPT !.queue = Append(@, res.func_args)])
              /\ pc' = "recv"
              /\ cur' = cur
         [] b = "yield" ->
              /\ Install(Self)
              /\ pc' = "unwrap"
              /\ cur' = res
         [] OTHER ->   \* "discard" and "warn": a logged warning
              /\ Install(Self)
              /\ pc' = "recv"
              /\ cur' = cur

\* res = next(isocket), for an envelope pushed by a worker of this run
Starmap_loop_recv ==
    /\ pc = "recv"
    /\ \E j \in Jobs :
         /\ chan[j] # <<>>
         /\ chan' = [chan EXCEPT ![j] = Tail(@)]
         /\ loop_body(Head(chan[j]))
    /\ UNCHANGED <<num_cores, task_args, calc_id, yielded, raised>>
    /\ UNCHANGED <<gcount, staleLeft, nsub, nval, pushed>>
    /\ UNCHANGED getVars

\* an envelope of a previous run that shares the receive channel
StaleKinds == {"value", "failure", "subtask", "warning", "ended"}
StaleResult(kind) ==
    CASE kind = "value" ->
           Result(Value("dict", 0, 0, ""), OtherRun, 0, "", "", 0)
      [] kind = "failure" ->
           Result(Value("ValueError", 0, 0, "x"), OtherRun, 0,
                  "traceback", "", 0)
      [] kind = "subtask" ->
           Result(Value("functuple", MaxChunks + MaxSub, 0, ""), OtherRun, 0,
                  "", "", 0)
      [] kind = "warning" ->
           Result(NoneVal, OtherRun, 0, "", check_mem_usage("above_soft"), 0)
      [] OTHER ->
           Result(NoneVal, OtherRun, 0, "", "TASK_ENDED", 0)

\* res = next(isocket), for an envelope of the previous run
Starmap_loop_recv_stale ==
    /\ pc = "recv"
    /\ staleLeft > 0
    /\ staleLeft' = staleLeft - 1
    /\ \E kind \in StaleKinds : loop_body(StaleResult(kind))
    /\ UNCHANGED <<num_cores, task_args, calc_id, yielded, raised>>
    /\ UNCHANGED <<gcount, chan, nsub, nval, pushed>>
    /\ UNCHANGED getVars

\* IterResult._iter: unwrap the Result that _loop yielded; the value is
\* yielded to the caller, or the exception is raised to the caller
NothingRaised == Returned(NoneVal)

IterResult_iter ==
    /\ pc = "unwrap"
    /\ LET r == Result_get(cur) IN
         IF r.raises
         THEN /\ pc' = "raised"
              /\ raised' = r
              /\ yielded' = yielded
         ELSE /\ pc' = "recv"
              /\ raised' = raised
              /\ yielded' = IF cur.func_args = 0
                            THEN Append(yielded, r.val) ELSE yielded
    /\ UNCHANGED <<num_cores, task_args, calc_id, queue, tasks, task_no,
                   socket, todo, cur>>
    /\ UNCHANGED workerVars
    /\ UNCHANGED historyVars
    /\ UNCHANGED getVars

\* count(word, mon): the Counter of the letters of the chunk of a job
\* ('hello' for the first chunk, 'world' for the second, 'x' otherwise)
Counter(val) ==
    CASE val.j = 1 -> ("h" :> 1) @@ ("e" :> 1) @@ ("l" :> 2) @@ ("o" :> 1)
      [] val.j = 2 -> ("w" :> 1) @@ ("o" :> 1) @@ ("r" :> 1) @@ ("l" :> 1)
                      @@ ("d" :> 1)
      [] OTHER -> ("x" :> 1)

\* IterResult.reduce with agg = operator.add on Counters: results are the
\* values the iteration yields, in order
RECURSIVE IterResult_reduce_keeps_last(_, _)
IterResult_reduce_keeps_last(results, acc) ==
    IF results = <<>> THEN acc
    ELSE IterResult_reduce_keeps_last(Tail(results), Counter(Head(results)))

RECURSIVE IterResult_reduce(_, _)
IterResult_reduce(results, acc) ==
    IF results = <<>> THEN acc
    ELSE IterResult_reduce(Tail(results), acc (+) Counter(Head(results)))

\* --------------------------------------------------------------- workers
\* One invocation of safely_call: where it is (pc), the count of its for
\* loop, the envelopes it has sent (out), and how many subtasks and
\* values the tasks of the run have produced.
MemLevels == {"below_soft", "above_soft", "above_hard"}

Worker(wp, count, out, ns, nv) ==
    [pc |-> wp, count |-> count, out |-> out, nsub |-> ns, nval |-> nv]

\* safely_call up to the creation of the generator object: the memory
\* check raises MemoryError out of safely_call (nothing is sent), or
\* sends a warning envelope, or does nothing
safely_call_begin_aborts_on_warning(w, t, used) ==
    LET msg == check_mem_usage(used) IN
    IF msg = "MemoryError" THEN [w EXCEPT !.pc = "crashed"]
    ELSE IF msg # ""
    THEN [w EXCEPT !.pc = "crashed",
                   !.out = Append(@, Result(NoneVal, calc_id, t, "", msg, 0))]
    ELSE [w EXCEPT !.pc = "running"]

safely_call_begin(w, t, used) ==
    LET msg == check_mem_usage(used) IN
    IF msg = "MemoryError" THEN [w EXCEPT !.pc = "crashed"]
    ELSE IF msg # ""
    THEN [w EXCEPT !.pc = "running",
                   !.out = Append(@, Result(NoneVal, calc_id, t, "", msg, 0))]
    ELSE [w EXCEPT !.pc = "running"]

\* if res.msg == 'TASK_ENDED': break
loop_never_breaks(res) == FALSE
loop_breaks(res) == res.msg = "TASK_ENDED"

\* what next(gobj) can do: a generator that raised or ended is exhausted
Outcomes(w) ==
    IF w.count > MaxYield + 1 THEN {}
    ELSE IF w.pc = "exhausted" THEN {"stop"}
    ELSE {"stop", "raise"}
         \cup (IF w.count < MaxYield /\ w.nval < MaxValues
               THEN {"value"} ELSE {})
         \cup (IF w.count < MaxYield /\ w.nsub < MaxSub
               THEN {"subtask"} ELSE {})

\* sending a value can fail (OverflowError for a huge output)
SendFailures(outcome) == IF outcome = "value" THEN BOOLEAN ELSE {FALSE}

\* One pass of the for loop of safely_call: advance the generator, send
\* the envelope (a failure of the send is sent in its place), stop after
\* the TASK_ENDED envelope
safely_call_next_ends_on_send_failure(w, t, outcome, sendFails) ==
    LET res == Result_new(outcome, calc_id, t, w.count,
                          MaxChunks + w.nsub + 1)
        err == Result(Value("OverflowError", t, w.count, "overflow"),
                      calc_id, t, "traceback of a send", "", w.count)
    IN  [pc |-> IF loop_breaks(res) \/ sendFails THEN "ended"
                ELSE IF outcome \in {"raise", "stop"} THEN "exhausted"
                ELSE "running",
         count |-> w.count + 1,
         out |-> Append(w.out, IF sendFails THEN err ELSE res),
         nsub |-> IF outcome = "subtask" THEN w.nsub + 1 ELSE w.nsub,
         nval |-> IF outcome = "value" THEN w.nval + 1 ELSE w.nval]

safely_call_next(w, t, outcome, sendFails) ==
    LET res == Result_new(outcome, calc_id, t, w.count,
                          MaxChunks + w.nsub + 1)
        err == Result(Value("OverflowError", t, w.count, "overflow"),
                      calc_id, t, "traceback of a send", "", w.count)
    IN  [pc |-> IF loop_breaks(res) THEN "ended"
                ELSE IF outcome \in {"raise", "stop"} THEN "exhausted"
                ELSE "running",
         count |-> w.count + 1,
         out |-> Append(w.out, IF sendFails THEN err ELSE res),
         nsub |-> IF outcome = "subtask" THEN w.nsub + 1 ELSE w.nsub,
         nval |-> IF outcome = "value" THEN w.nval + 1 ELSE w.nval]

\* the ways a whole invocation can go, from w on
RECURSIVE safely_call_runs(_, _)
safely_call_runs(w, t) ==
    IF w.pc \in {"ended", "crashed"} THEN {w}
    ELSE IF w.pc = "start"
    THEN UNION {safely_call_runs(safely_call_begin(w, t, used), t) :
                   used \in MemLevels}
    ELSE UNION {UNION {safely_call_runs(safely_call_next(w, t, o, f), t) :
                          f \in SendFailures(o)} :
                   o \in Outcomes(w)}

\* A backend runs the safely_call of a submitted job; its envelopes reach
\* the socket of the orchestrator in the order in which they were sent.
safely_call(t) ==
    /\ wpc[t] = "start"
    /\ \E w \in safely_call_runs(Worker("start", 0, <<>>, nsub, nval), t) :
         /\ wpc' = [wpc EXCEPT ![t] = w.pc]
         /\ chan' = [chan EXCEPT ![t] = w.out]
         /\ nsub' = w.nsub
         /\ nval' = w.nval
    /\ UNCHANGED starmapVars
    /\ UNCHANGED <<staleLeft, pushed, gcount>>
    /\ UNCHANGED <<sent, lastRecv, arrived, ended>>
    /\ UNCHANGED getVars

\* ---------------------------------------------------------- specification
IdleWorkers ==
    /\ wpc = [j \in Jobs |-> "idle"]
    /\ gcount = [j \in Jobs |-> 0]
    /\ chan = [j \in Jobs |-> <<>>]
    /\ nsub = 0
    /\ nval = 0
    /\ pushed = <<>>

\* no function is called on its own, no session is followed
NoCall ==
    /\ fnArg = <<>>
    /\ fnOut = <<>>
    /\ session = <<>>
    /\ insts = <<>>
    /\ net = <<>>
    /\ lastOp = <<>>

\* Starmap.__init__
NewStarmap ==
    /\ calc_id = ThisRun
    /\ queue = <<>>
    /\ tasks = <<>>
    /\ task_no = 0
    /\ socket = FALSE
    /\ todo = 0
    /\ pc = "new"
    /\ cur = NoEnvelope
    /\ yielded = <<>>
    /\ raised = NothingRaised
    /\ sent = <<>>
    /\ lastRecv = NoEnvelope
    /\ arrived = <<>>
    /\ ended = {}

Init ==
    /\ num_cores \in {<<>>} \cup {<<n>> : n \in 1..MaxCores}
    /\ \E n \in 0..MaxChunks : task_args = [i \in 1..n |-> i]
    /\ NewStarmap
    /\ IdleWorkers
    /\ staleLeft = MaxStale
    /\ getArg = NoEnvelope
    /\ getOut = <<>>
    /\ NoCall

Next ==
    \/ Starmap_submit_all
    \/ Starmap_loop_start
    \/ Starmap_loop_recv
    \/ Starmap_loop_recv_stale
    \/ IterResult_iter
    \/ \E t \in Jobs : safely_call(t)

Spec == Init /\ [][Next]_vars

\* ------------------------------------- one safely_call, pass by pass
\* The invocation of one submitted job, followed from one send to the
\* next; wpc, gcount and pushed of the job hold the Worker record.
CallJob == 1

TheWorker == Worker(wpc[CallJob], gcount[CallJob], pushed, nsub, nval)

SetWorker(w) ==
    /\ wpc' = [wpc EXCEPT ![CallJob] = w.pc]
    /\ gcount' = [gcount EXCEPT ![CallJob] = w.count]
    /\ pushed' = w.out
    /\ chan' = [chan EXCEPT ![CallJob] = w.out]
    /\ nsub' = w.nsub
    /\ nval' = w.nval
    /\ UNCHANGED <<starmapVars, staleLeft, getVars>>
    /\ UNCHANGED <<sent, lastRecv, arrived, ended>>

safely_call_start ==
    /\ wpc[CallJob] = "start"
    /\ \E used \in MemLevels :
         SetWorker(safely_call_begin(TheWorker, CallJob, used))

safely_call_step ==
    /\ wpc[CallJob] \in {"running", "exhausted"}
    /\ \E o \in Outcomes(TheWorker) : \E f \in SendFailures(o) :
         SetWorker(safely_call_next(TheWorker, CallJob, o, f))

InitCall ==
    /\ num_cores = <<>>
    /\ task_args = <<CallJob>>
    /\ NewStarmap
    /\ wpc = [j \in Jobs |-> IF j = CallJob THEN "start" ELSE "idle"]
    /\ gcount = [j \in Jobs |-> 0]
    /\ chan = [j \in Jobs |-> <<>>]
    /\ nsub \in 0..MaxSub
    /\ nval \in 0..MaxValues
    /\ pushed = <<>>
    /\ staleLeft = 0
    /\ getArg = NoEnvelope
    /\ getOut = <<>>
    /\ NoCall

NextCall == safely_call_start \/ safely_call_step

SpecCall == InitCall /\ [][NextCall]_vars

\* ------------------------------------------------- Result.get on its own
Texts == {"x", "k", ""}
Tracebacks == {"traceback", "traceback of a send"}
GetInputs ==
    {Result(Value(cls, 0, 0, text), ThisRun, 1, tb, "", 0) :
        cls \in ExcClasses, text \in Texts, tb \in Tracebacks \cup {""}}
    \cup {Result(Value(cls, 0, 0, ""), ThisRun, 1, "", "", 0) :
             cls \in {"dict", "NoneType", "functuple"}}

InitGet ==
    /\ num_cores = <<>>
    /\ task_args = <<>>
    /\ NewStarmap
    /\ IdleWorkers
    /\ staleLeft = 0
    /\ getArg \in GetInputs
    /\ getOut = <<>>
    /\ NoCall

Result_get_call ==
    /\ getOut = <<>>
    /\ getOut' = <<Result_get(getArg)>>
    /\ UNCHANGED <<starmapVars, workerVars, historyVars, getArg>>
    /\ UNCHANGED <<fnArg, fnOut, sessionVars>>

NextGet == Result_get_call

SpecGet == InitGet /\ [][NextGet]_vars

\* ------------------------------------------------- Result.new on its own
NewOutcomes == {"stop", "raise", "interrupt", "subtask", "none", "tuple",
                "emptytuple", "value"}
NewInputs ==
    [outcome : NewOutcomes, calc : {ThisRun, OtherRun}, job : Jobs,
     count : 0..MaxYield, sub : {MaxChunks + 1}]

\* nothing of the scheduler, the workers and Result.get moves
IdleStarmap ==
    /\ num_cores = <<>>
    /\ task_args = <<>>
    /\ NewStarmap
    /\ IdleWorkers
    /\ staleLeft = 0
    /\ getArg = NoEnvelope
    /\ getOut = <<>>

InitNew ==
    /\ IdleStarmap
    /\ session = <<>>
    /\ insts = <<>>
    /\ net = <<>>
    /\ lastOp = <<>>
    /\ fnArg \in NewInputs
    /\ fnOut = <<>>

\* the call: the exception that left Result.new or the envelope returned
Result_new_call ==
    /\ fnOut = <<>>
    /\ LET a == fnArg
           exc == Result_new_raises(a.outcome, a.job, a.count, a.sub)
       IN fnOut' = <<[escaped |-> exc,
                      res |-> IF exc # "" THEN NoEnvelope
                              ELSE Result_new(a.outcome, a.calc, a.job,
                                              a.count, a.sub)]>>
    /\ UNCHANGED <<starmapVars, workerVars, historyVars>>
    /\ UNCHANGED <<getArg, getOut, fnArg, sessionVars>>

NextNew == Result_new_call

SpecNew == InitNew /\ [][NextNew]_vars

\* ------------------------------- the session: init, shutdown, instances
\* The class attributes of Starmap are shared by every instance of the
\* process: distribute, pool, pids, dask_client. Two Starmap instances are
\* built, submit their tasks and pull from their sockets in any order.
Modes == {"no", "processpool", "threadpool", "celery", "zmq", "dask"}

\* values of the OQ_DISTRIBUTE environment variable ("" when not set)
EnvValues == {"", "NO", "bogus"}
lower(text) ==
    CASE text = "NO" -> "no"
      [] text = "ProcessPool" -> "processpool"
      [] text = "THREADPOOL" -> "threadpool"
      [] text = "Celery" -> "celery"
      [] text = "ZMQ" -> "zmq"
      [] text = "Dask" -> "dask"
      [] text = "BOGUS" -> "bogus"
      [] OTHER -> text

\* oq_distribute: the mode, or "ValueError"
oq_distribute_as_given(env) ==
    LET dist == IF env = "" THEN "processpool" ELSE env IN
    IF dist \notin Modes THEN "ValueError" ELSE dist

oq_distribute(env) ==
    LET dist == IF env = "" THEN "processpool" ELSE lower(env) IN
    IF dist \notin Modes THEN "ValueError" ELSE dist

\* the pid of every process of a pool of PoolSize processes
PoolSize == 2
PoolPids(id) == [k \in 1..PoolSize |-> PoolSize * id + k]

\* Starmap.init(distribute=d), d = "" for None: the class attributes
\* after the call (unchanged when oq_distribute raises)
InitRaises(s, d) == d = "" /\ oq_distribute(s.env) = "ValueError"

Starmap_init(s, d) ==
    LET m == IF d # "" THEN d ELSE oq_distribute(s.env)
        s1 == [s EXCEPT !.distribute = m]
    IN  IF InitRaises(s, d) THEN s
        ELSE IF m = "processpool" /\ s.pool = <<>>
        THEN [s1 EXCEPT !.pool = <<[kind |-> "process", id |-> s.npools + 1]>>,
                        !.npools = @ + 1,
                        !.pids = PoolPids(s.npools + 1)]
        ELSE IF m = "threadpool" /\ s.pool = <<>>
        THEN [s1 EXCEPT !.pool = <<[kind |-> "thread", id |-> s.npools + 1]>>,
                        !.npools = @ + 1]
        ELSE IF m = "dask"
        THEN [s1 EXCEPT !.dask_client = <<s.nclients + 1>>,
                        !.nclients = @ + 1]
        ELSE s1

\* Starmap.shutdown
Starmap_shutdown_keeps_pids(s) ==
    [s EXCEPT !.pool = <<>>, !.dask_client = <<>>]

Starmap_shutdown(s) ==
    [s EXCEPT !.pool = <<>>,
              !.pids = IF s.pool # <<>> THEN <<>> ELSE @,
              !.dask_client = <<>>]

\* the session can still create what init(d) may create
CanInit(s, d) ==
    /\ Starmap_init(s, d).npools <= MaxPools
    /\ Starmap_init(s, d).nclients <= MaxClients

NoInstance == [built |-> FALSE, mode |-> "", num_tasks |-> 0, task_no |-> 0,
               port |-> 0, dist |-> "", got |-> <<>>]
Instances == 1..2

InitSession ==
    /\ IdleStarmap
    /\ fnArg = <<>>
    /\ fnOut = <<>>
    /\ \E env \in EnvValues :
         session = [env |-> env, distribute |-> "", pool |-> <<>>,
                    pids |-> <<>>, dask_client |-> <<>>, npools |-> 0,
                    nclients |-> 0]
    /\ insts = [i \in Instances |-> NoInstance]
    /\ net = [p \in Instances |-> <<>>]
    /\ lastOp = [op |-> "", mode |-> ""]

SessionIdle == UNCHANGED <<starmapVars, workerVars, historyVars, getArg,
                           getOut, fnArg, fnOut>>

\* Starmap.init called by the application
Starmap_init_call ==
    \E d \in Modes \cup {""} :
        /\ CanInit(session, d)
        /\ session' = Starmap_init(session, d)
        /\ lastOp' = [op |-> IF InitRaises(session, d) THEN "init raised"
                             ELSE "init",
                      mode |-> d]
        /\ UNCHANGED <<insts, net>>
        /\ SessionIdle

\* Starmap.shutdown called by the application
Starmap_shutdown_call ==
    /\ session' = Starmap_shutdown(session)
    /\ lastOp' = [op |-> "shutdown", mode |-> ""]
    /\ UNCHANGED <<insts, net>>
    /\ SessionIdle

NextSession ==
    \/ Starmap_init_call
    \/ Starmap_shutdown_call

SpecSession == InitSession /\ [][NextSession]_vars

\* ------------------------------------- two instances in one session
\* Starmap(task_func, task_args, distribute=d): the constructor calls
\* Starmap.init(distribute=d); mode is the mode the instance was built
\* with, num_tasks is len(task_args)
InstModes == {"no", "processpool", "dask", ""}

Starmap_new ==
    \E i \in Instances, d \in InstModes, n \in 1..MaxTasks :
        /\ ~insts[i].built
        /\ CanInit(session, d)
        /\ ~InitRaises(session, d)
        /\ session' = Starmap_init(session, d)
        /\ insts' = [insts EXCEPT ![i] =
                        [NoInstance EXCEPT !.built = TRUE,
                                           !.mode = session'.distribute,
                                           !.num_tasks = n]]
        /\ lastOp' = [op |-> "init", mode |-> d]
        /\ UNCHANGED net
        /\ SessionIdle

\* Starmap.submit of instance i: the first time it binds its socket to a
\* free port; the backend is the one of the class attribute distribute,
\* or 'no' for a single task; the safely_call of the task pushes its
\* envelope to the backurl of the monitor of the instance
Starmap_submit_inst ==
    \E i \in Instances :
        LET self == insts[i]
            bound == {insts[k].port : k \in Instances} \ {0}
            port == IF self.port # 0 THEN self.port
                    ELSE CHOOSE p \in Instances : p \notin bound
            dist == IF self.num_tasks = 1 THEN "no" ELSE session.distribute
        IN  /\ self.built
            /\ self.task_no < self.num_tasks
            /\ insts' = [insts EXCEPT ![i] =
                            [self EXCEPT !.port = port,
                                         !.dist = dist,
                                         !.task_no = @ + 1]]
            /\ net' = [net EXCEPT ![port] =
                         Append(@, [inst |-> i, no |-> self.task_no])]
            /\ UNCHANGED <<session, lastOp>>
            /\ SessionIdle

\* one pass of Starmap._loop of instance i: pull from its own socket
Starmap_receive_inst ==
    \E i \in Instances :
        LET self == insts[i] IN
        /\ self.port # 0
        /\ net[self.port] # <<>>
        /\ insts' = [insts EXCEPT ![i].got = Append(@, Head(net[self.port]))]
        /\ net' = [net EXCEPT ![self.port] = Tail(@)]
        /\ UNCHANGED <<session, lastOp>>
        /\ SessionIdle

NextInstances ==
    \/ Starmap_new
    \/ Starmap_submit_inst
    \/ Starmap_receive_inst

SpecInstances == InitSession /\ [][NextInstances]_vars

\* ------------------------- Starmap.apply and sequential_apply on their own
\* args is (sequence, *extra): the sequence is given as the chunks of its
\* split, an extra argument is a plain value or a Monitor ("mon"); inject
\* says that the last parameter of the task is named mon.
ExtraValues == {"a", "b", "mon"}
Blocks == <<"blk1", "blk2", "blk3", "blk4">>
ApplyInputs ==
    [chunks : {SubSeq(Blocks, 1, n) : n \in 0..MaxChunks},
     extra : UNION {[1..n -> ExtraValues] : n \in 0..MaxExtra},
     inject : BOOLEAN]

\* Starmap.apply: args = args[1:-1]; taskargs = [(blk,) + args for blk ...]
Starmap_apply_keeps_last(chunks, extra) ==
    [i \in 1..Len(chunks) |-> <<chunks[i]>> \o extra]

Starmap_apply_drops_last_chunk(chunks, extra) ==
    [i \in 1..(Len(chunks) - 1) |->
        <<chunks[i]>> \o (IF extra = <<>> THEN <<>> ELSE Front(extra))]

Starmap_apply(chunks, extra) ==
    [i \in 1..Len(chunks) |->
        <<chunks[i]>> \o (IF extra = <<>> THEN <<>> ELSE Front(extra))]

\* Starmap.submit: assert not isinstance(args[-1], Monitor)
submit_asserts(args) == Last(args) # "mon"

\* safely_call: if mon.inject: args += (mon,); then func(*args)
safely_call_args(args, inject) ==
    IF inject THEN Append(args, "mon") ELSE args

\* sequential_apply: task_args = [(ch,) + args[1:] for ch in chunks]
sequential_apply(chunks, extra) ==
    [i \in 1..Len(chunks) |-> <<chunks[i]>> \o extra]

InitApply ==
    /\ IdleStarmap
    /\ session = <<>>
    /\ insts = <<>>
    /\ net = <<>>
    /\ lastOp = <<>>
    /\ fnArg \in ApplyInputs
    /\ fnOut = <<>>

\* Starmap.apply(task, args).reduce() with mode 'no' next to
\* sequential_apply(task, args): the arguments of every call of the task
apply_call ==
    /\ fnOut = <<>>
    /\ LET a == fnArg
           taskargs == Starmap_apply(a.chunks, a.extra)
           ok == \A i \in 1..Len(taskargs) : submit_asserts(taskargs[i])
       IN fnOut' = <<[raised |-> IF ok THEN "" ELSE "AssertionError",
                      taskargs |-> taskargs,
                      calls |-> IF ok
                                THEN [i \in 1..Len(taskargs) |->
                                        safely_call_args(taskargs[i],
                                                         a.inject)]
                                ELSE <<>>,
                      sequential |-> sequential_apply(a.chunks, a.extra)]>>
    /\ UNCHANGED <<starmapVars, workerVars, historyVars>>
    /\ UNCHANGED <<getArg, getOut, fnArg, sessionVars>>

NextApply == apply_call

SpecApply == InitApply /\ [][NextApply]_vars

\* ------------------------------------------- functions on their own
\* One call of a function: fnArg.fn names it and holds its arguments,
\* fnOut gets what it returned or raised.
EnvTexts == {"", "no", "NO", "processpool", "ProcessPool", "threadpool",
             "THREADPOOL", "celery", "Celery", "zmq", "ZMQ", "dask", "Dask",
             "bogus", "BOGUS", " no", "pool"}

\* the sequences of at most MaxItems elements, each with a weight and a key
Items ==
    UNION {[1..n -> [w : 1..MaxWeight, k : {"a", "b"}]] : n \in 0..MaxItems}

\* the payloads: None, booleans, small integers, tuples of up to two of
\* them, and a function, which cannot be pickled
Payloads ==
    LET Atoms == {[t |-> "NoneType"]} \cup [t : {"bool"}, b : BOOLEAN]
                 \cup [t : {"int"}, n : 0..MaxInt]
    IN  Atoms
        \cup [t : {"tuple"}, items : UNION {[1..n -> Atoms] : n \in 0..2}]
        \cup {[t |-> "function"]}

\* the objects of a batch by id(obj): two equal integers that are distinct
\* objects, and an envelope that is already a Pickled (of the empty tuple)
Heap ==
    <<[t |-> "int", n |-> 1], [t |-> "int", n |-> 1],
      [t |-> "Pickled", clsname |-> "tuple", calc_id |-> "",
       pik |-> <<128, 5, 41, 46>>]>>

\* the names a directory can hold, name = stem + str(n) + ext
FileNames ==
    [stem : {"calc_"}, n : 1..MaxCalc, ext : {""}]
    \cup {[stem |-> "calc_", n |-> 1, ext |-> ".hdf5"],
          [stem |-> "tmp_", n |-> 3, ext |-> ""]}

\* the subclasses of SecondaryPeril: their outputs, the imt their compute
\* looks for, and its shape (the outputs are appended in every pass of the
\* loop, only in the passes of that imt, or once after the loop)
SecondaryPerils ==
    LET peril(name, outputs, imts, shape) ==
            [name |-> name, outputs |-> outputs, imts |-> imts,
             shape |-> shape]
    IN {peril("NewmarkDisplacement", <<"Disp", "DispProb">>, {"PGA"}, "loop"),
        peril("GrantEtAl2016RockSlopeFailure", <<"Disp">>, {"PGA"}, "loop"),
        peril("HazusLiquefaction", <<"LiqProb">>, {"PGA"}, "if"),
        peril("HazusDeformation", <<"PGDMax">>, {"PGA"}, "if"),
        peril("Rathje2023LateralSpreadNonparametric", <<"LSDClass">>,
              {"PGA"}, "loop"),
        peril("ZhuEtAl2015LiquefactionGeneral", <<"LiqProb", "LiqOccur">>,
              {"PGA"}, "loop"),
        peril("ZhuEtAl2017LiquefactionCoastal",
              <<"LiqProb", "LiqOccur", "LSE">>, {"PGV"}, "loop"),
        peril("ZhuEtAl2017LiquefactionGeneral",
              <<"LiqProb", "LiqOccur", "LSE">>, {"PGV"}, "loop"),
        peril("RashidianBaise2020Liquefaction",
              <<"LiqProb", "LiqOccur", "LSE">>, {"PGA", "PGV"}, "after"),
        peril("AllstadtEtAl2022Liquefaction",
              <<"LiqProb", "LiqOccur", "LSE">>, {"PGA", "PGV"}, "after"),
        peril("AkhlagiEtAl2021LiquefactionA", <<"LiqProb", "LiqOccur">>,
              {"PGV"}, "loop"),
        peril("AkhlagiEtAl2021LiquefactionB", <<"LiqProb", "LiqOccur">>,
              {"PGV"}, "loop"),
        peril("Bozzoni2021LiquefactionEurope", <<"LiqProb", "LiqOccur">>,
              {"PGA"}, "loop"),
        peril("TodorovicSilva2022NonParametric", <<"LiqOccur", "LiqProb">>,
              {"PGV"}, "loop")}

FnInputs ==
    [fn : {"oq_distribute"}, env : EnvTexts]
    \cup [fn : {"submit"}, num_tasks : {<<>>} \cup {<<n>> : n \in 0..MaxTasks},
          distribute : Modes, subtask : BOOLEAN]
    \cup [fn : {"safely_call"}, isgenfunc : BOOLEAN, k : 0..(MaxYield + 2),
          used : {"below_soft", "above_soft", "above_hard"}]
    \cup [fn : {"compute"}, self : SecondaryPerils,
          imt_gmf : UNION {[1..n -> {"PGA", "PGV", "SA(1.0)"}] :
                              n \in 0..MaxImts}]
    \cup [fn : {"DataStore"}, listdir : [{"DATADIR", "d"} -> SUBSET FileNames],
          calc_id : {<<>>, <<-1>>}, datadir : {"DATADIR", "d"}]
    \cup [fn : {"Pickled"}, obj : Payloads]
    \cup [fn : {"pickle_sequence"},
          objects : UNION {[1..n -> DOMAIN Heap] : n \in 0..MaxItems}]
    \cup [fn : {"apply"}, items : Items, hint : 1..MaxHint]
    \cup [fn : {"split_task"}, items : Items, rate : 0..MaxRate,
          duration : 1..MaxDuration, rest : {<<"mon">>, <<"x", "mon">>}]
    \cup [fn : {"submit_all"}, distribute : {"", "no", "processpool", "bogus"},
          env : EnvValues,
          picklable : UNION {[1..n -> BOOLEAN] : n \in 1..MaxTasks}]

InitFn ==
    /\ IdleStarmap
    /\ session = <<>>
    /\ insts = <<>>
    /\ net = <<>>
    /\ lastOp = <<>>
    /\ fnArg \in FnInputs
    /\ fnOut = <<>>

\* the call of the function fn returns or raises out
Call(fn, out) ==
    /\ fnOut = <<>>
    /\ fnArg.fn = fn
    /\ fnOut' = <<out>>
    /\ UNCHANGED <<starmapVars, workerVars, historyVars>>
    /\ UNCHANGED <<getArg, getOut, fnArg, sessionVars>>

oq_distribute_call == Call("oq_distribute", oq_distribute(fnArg.env))

\* pickle.dumps(obj, pickle.HIGHEST_PROTOCOL): the protocol header, the
\* opcodes that build obj and STOP, as a sequence of bytes
dumps(obj) ==
    LET atom(a) == CASE a.t = "NoneType" -> <<78>>
                     [] a.t = "bool" -> IF a.b THEN <<136>> ELSE <<137>>
                     [] a.t = "int" -> <<75, a.n>>
        save(o) == IF o.t # "tuple" THEN atom(o)
                   ELSE CASE Len(o.items) = 0 -> <<41>>
                          [] Len(o.items) = 1 -> atom(o.items[1]) \o <<133>>
                          [] Len(o.items) = 2 ->
                               atom(o.items[1]) \o atom(o.items[2])
                                  \o <<134>>
    IN  <<128, 5>> \o save(obj) \o <<46>>

\* pickle.loads(pik): the opcodes are run on a stack, STOP returns its top
RECURSIVE load(_, _)
load(pik, stack) ==
    LET op == Head(pik)
        n == Len(stack)
    IN  CASE op = 128 -> load(Tail(Tail(pik)), stack)
          [] op = 78 -> load(Tail(pik), Append(stack, [t |-> "NoneType"]))
          [] op = 136 ->
               load(Tail(pik), Append(stack, [t |-> "bool", b |-> TRUE]))
          [] op = 137 ->
               load(Tail(pik), Append(stack, [t |-> "bool", b |-> FALSE]))
          [] op = 75 ->
               load(Tail(Tail(pik)),
                    Append(stack, [t |-> "int", n |-> pik[2]]))
          [] op = 41 ->
               load(Tail(pik), Append(stack, [t |-> "tuple", items |-> <<>>]))
          [] op = 133 ->
               load(Tail(pik),
                    Append(SubSeq(stack, 1, n - 1),
                           [t |-> "tuple", items |-> <<stack[n]>>]))
          [] op = 134 ->
               load(Tail(pik),
                    Append(SubSeq(stack, 1, n - 2),
                           [t |-> "tuple",
                            items |-> <<stack[n - 1], stack[n]>>]))
          [] op = 46 -> stack[n]

\* Pickled(obj): the envelope, or the TypeError of an object that cannot
\* be pickled
Pickled(obj) ==
    IF obj.t = "function" THEN [raised |-> "TypeError"]
    ELSE [clsname |-> obj.t, calc_id |-> "", pik |-> dumps(obj)]

Pickled_len(self) == Len(self.pik)

Pickled_unpickle_returns_pik(self) == self.pik

Pickled_unpickle(self) == load(self.pik, <<>>)

\* Pickled(obj), then len and unpickle on the envelope, and the envelope
\* as it is after them
Pickled_call ==
    Call("Pickled",
         LET self == Pickled(fnArg.obj)
         IN  IF "raised" \in DOMAIN self THEN self
             ELSE [self |-> self, len |-> Pickled_len(self),
                   obj |-> Pickled_unpickle(self), after |-> self])

pickle_sequence_by_value(objects) ==
    [i \in 1..Len(objects) |->
        IF Heap[objects[i]].t = "Pickled"
        THEN [ref |-> <<"obj", objects[i]>>, env |-> Heap[objects[i]]]
        ELSE [ref |-> <<"new", 1>>, env |-> Pickled(Heap[objects[i]])]]

\* pickle_sequence(objects), objects given by their ids: for each position
\* the envelope and which object it is (the input itself or the n-th
\* envelope made here)
pickle_sequence(objects) ==
    LET RECURSIVE loop(_, _, _)
        loop(rest, cache, made) ==
            IF rest = <<>> THEN <<>>
            ELSE LET obj_id == Head(rest)
                     new == IF Heap[obj_id].t = "Pickled"
                            THEN [ref |-> <<"obj", obj_id>>,
                                  env |-> Heap[obj_id]]
                            ELSE [ref |-> <<"new", made + 1>>,
                                  env |-> Pickled(Heap[obj_id])]
                 IN  IF obj_id \in DOMAIN cache
                     THEN <<cache[obj_id]>> \o loop(Tail(rest), cache, made)
                     ELSE <<new>>
                          \o loop(Tail(rest), cache @@ (obj_id :> new),
                                  IF new.ref[1] = "new" THEN made + 1
                                  ELSE made)
    IN  loop(objects, <<>>, 0)

pickle_sequence_call ==
    Call("pickle_sequence", pickle_sequence(fnArg.objects))

\* Starmap(task, task_args, distribute).submit_all() with num_cores None:
\* the exception raised, if any, and the number of tasks given to a
\* backend before it. picklable[i] says whether the arguments of task i
\* can be pickled; distribute is "" for None.
Starmap_run(distribute, env, picklable) ==
    IF distribute = "" /\ oq_distribute(env) = "ValueError"
    THEN [raised |-> "ValueError", submitted |-> 0]
    ELSE LET mode == IF distribute # "" THEN distribute
                     ELSE oq_distribute(env)
             dist == IF Len(picklable) = 1 THEN "no" ELSE mode
             bad == {i \in 1..Len(picklable) : ~picklable[i]}
             first == CHOOSE i \in bad : \A k \in bad : i <= k
         IN  IF dist = "no"
             THEN [raised |-> "", submitted |-> Len(picklable)]
             ELSE IF dist \notin Modes
             THEN [raised |-> IF 1 \in bad THEN "TypeError" ELSE "KeyError",
                   submitted |-> 0]
             ELSE IF bad = {}
             THEN [raised |-> "", submitted |-> Len(picklable)]
             ELSE [raised |-> "TypeError", submitted |-> first - 1]

submit_all_call ==
    Call("submit_all", Starmap_run(fnArg.distribute, fnArg.env,
                                   fnArg.picklable))

\* sum(weight(item) for item in block), a block being the positions of
\* its elements in items
RECURSIVE Weight(_, _)
Weight(items, block) ==
    IF block = <<>> THEN 0
    ELSE items[Head(block)].w + Weight(items, Tail(block))

\* block_splitter(items, max_weight, weight): the consecutive runs of group
\* whose weight does not exceed bsize (an element heavier than bsize is a
\* run of its own)
RECURSIVE block_splitter(_, _, _, _)
block_splitter(items, group, run, bsize) ==
    IF group = <<>> THEN (IF run = <<>> THEN <<>> ELSE <<run>>)
    ELSE IF run # <<>> /\ Weight(items, run) + items[Head(group)].w > bsize
    THEN <<run>> \o block_splitter(items, Tail(group), <<Head(group)>>, bsize)
    ELSE block_splitter(items, Tail(group), Append(run, Head(group)), bsize)

\* split_in_blocks(sequence, hint, weight, key): for each key the chunks
\* allocated to its group in proportion to its weight (at least one), the
\* block size ceil(group weight / chunks) and the runs of the group
split_in_blocks(items, hint) ==
    LET all == [i \in 1..Len(items) |-> i]
        Group(k) == SelectSeq(all, LAMBDA i : items[i].k = k)
        Allocated(k) ==
            LET n == (hint * Weight(items, Group(k))) \div Weight(items, all)
            IN  IF n < 1 THEN 1 ELSE n
        Blocks_of(k) ==
            IF Group(k) = <<>> THEN <<>>
            ELSE block_splitter(items, Group(k), <<>>,
                      (Weight(items, Group(k)) + Allocated(k) - 1)
                         \div Allocated(k))
    IN  Blocks_of("a") \o Blocks_of("b")

\* Starmap.apply(task, (sequence,), concurrent_tasks=hint): the arguments
\* of the tasks
apply_split_call ==
    Call("apply", Starmap_apply(split_in_blocks(fnArg.items, fnArg.hint),
                                <<>>))

\* sorted(args[0], key=weight, reverse=True): the positions of the elements
\* by descending weight, equal weights in their original order
sorted_reverse(items) ==
    LET n == Len(items)
        before(i) == {j \in 1..n : \/ items[j].w > items[i].w
                                   \/ items[j].w = items[i].w /\ j < i}
    IN  [p \in 1..n |-> CHOOSE i \in 1..n : Cardinality(before(i)) = p - 1]

split_task_drops_last_block(items, rest, rate, duration) ==
    LET elements == sorted_reverse(items)
        scaled == [i \in 1..Len(items) |->
                      [w |-> items[i].w * rate, k |-> items[i].k]]
        blocks == IF Len(items) < 2 THEN <<>>
                  ELSE block_splitter(scaled, Tail(elements), <<>>, duration)
    IN  IF Len(items) = 0 THEN [yielded |-> <<>>, raised |-> "AssertionError"]
        ELSE [yielded |->
                 <<[kind |-> "result", block |-> <<Head(elements)>>,
                    args |-> rest]>>
                 \o [b \in 1..(Len(blocks) - 1) |->
                        [kind |-> "subtask", block |-> blocks[b],
                         args |-> Front(rest)]],
              raised |-> ""]

split_task_silent_on_empty(items, rest, rate, duration) ==
    [yielded |-> <<>>, raised |-> ""]

split_task_runs_every_block(items, rest, rate, duration) ==
    LET elements == sorted_reverse(items)
        scaled == [i \in 1..Len(items) |->
                      [w |-> items[i].w * rate, k |-> items[i].k]]
        blocks == IF Len(items) < 2 THEN <<>>
                  ELSE block_splitter(scaled, Tail(elements), <<>>, duration)
    IN  IF Len(items) = 0 THEN [yielded |-> <<>>, raised |-> "AssertionError"]
        ELSE [yielded |->
                 <<[kind |-> "result", block |-> <<Head(elements)>>,
                    args |-> rest]>>
                 \o [b \in 1..Len(blocks) |->
                        [kind |-> "result", block |-> blocks[b],
                         args |-> rest]],
              raised |-> ""]

\* split_task(func, *args, duration, weight), args being (items,) + rest
\* and rest ending with the monitor: what the generator yields and what it
\* raises. A result is func(block, *rest) run inline, a sub-task is the
\* tuple (func, block) + args[1:-1]; rate is dt, the time func took per
\* unit of weight of the first element
split_task(items, rest, rate, duration) ==
    LET elements == sorted_reverse(items)
        n == Len(elements)
        result(block) == [kind |-> "result", block |-> block, args |-> rest]
    IN  IF n = 0 THEN [yielded |-> <<>>, raised |-> "AssertionError"]
        ELSE IF n = 1
        THEN [yielded |-> <<result([i \in 1..Len(items) |-> i])>>,
              raised |-> ""]
        ELSE LET scaled == [i \in 1..Len(items) |->
                               [w |-> items[i].w * rate, k |-> items[i].k]]
                 blocks == block_splitter(scaled, Tail(elements), <<>>,
                                          duration)
             IN  [yielded |->
                     <<result(<<Head(elements)>>)>>
                     \o [b \in 1..(Len(blocks) - 1) |->
                            [kind |-> "subtask", block |-> blocks[b],
                             args |-> Front(rest)]]
                     \o <<result(blocks[Len(blocks)])>>,
                  raised |-> ""]

split_task_call ==
    Call("split_task",
         split_task(fnArg.items, fnArg.rest, fnArg.rate, fnArg.duration))

\* get_last_calc_id(datadir): 0 or the largest ID of the names matching
\* 'calc_\d+' in os.listdir(DATADIR); int(calc[5:]) raises ValueError for
\* a name that goes on after the digits
get_last_calc_id(listdir, datadir) ==
    LET calcs == {f \in listdir["DATADIR"] : f.stem = "calc_"}
        calc_ids == {f.n : f \in calcs}
    IN  IF calcs = {} THEN [value |-> 0, raised |-> ""]
        ELSE IF \E f \in calcs : f.ext # ""
        THEN [value |-> 0, raised |-> "ValueError"]
        ELSE [value |-> CHOOSE n \in calc_ids : \A m \in calc_ids : m <= n,
              raised |-> ""]

\* DataStore(calc_id, datadir): the calc_id of the new object, the
\* argument id being <<>> for None
DataStore_init(listdir, id, datadir) ==
    LET last == get_last_calc_id(listdir, datadir)
    IN  IF id = <<>>
        THEN IF last.raised # "" THEN last
             ELSE [value |-> last.value + 1, raised |-> ""]
        ELSE IF id = <<-1>> THEN last
        ELSE [value |-> id[1], raised |-> ""]

DataStore_call ==
    Call("DataStore",
         DataStore_init(fnArg.listdir, fnArg.calc_id, fnArg.datadir))

\* compute as in NewmarkDisplacement: the arrays are computed in the
\* passes of the imt of the class and appended in every pass; found is the
\* pass they were computed in, 0 while the names are not bound
RECURSIVE compute_loop(_, _, _, _)
compute_loop(self, imt_gmf, pos, found) ==
    IF pos > Len(imt_gmf) THEN [out |-> <<>>, raised |-> ""]
    ELSE LET now == IF imt_gmf[pos] \in self.imts THEN pos ELSE found
             rest == compute_loop(self, imt_gmf, pos + 1, now)
         IN  IF now = 0 THEN [out |-> <<>>, raised |-> "UnboundLocalError"]
             ELSE [out |-> [o \in 1..Len(self.outputs) |->
                              [name |-> self.outputs[o], pass |-> now]]
                           \o rest.out,
                   raised |-> rest.raised]

\* compute as in HazusLiquefaction: the array is computed and appended in
\* the passes of the imt of the class
RECURSIVE compute_if(_, _, _)
compute_if(self, imt_gmf, pos) ==
    IF pos > Len(imt_gmf) THEN <<>>
    ELSE (IF imt_gmf[pos] \in self.imts
          THEN [o \in 1..Len(self.outputs) |->
                   [name |-> self.outputs[o], pass |-> pos]]
          ELSE <<>>)
         \o compute_if(self, imt_gmf, pos + 1)

\* compute(mag, imt_gmf, sites) of the class of self: the arrays returned
\* or the exception raised; the classes that need both PGA and PGV raise
\* ValueError without them and append their arrays once
compute(self, imt_gmf) ==
    CASE self.shape = "loop" -> compute_loop(self, imt_gmf, 1, 0)
      [] self.shape = "if" ->
           [out |-> compute_if(self, imt_gmf, 1), raised |-> ""]
      [] self.shape = "after" ->
           IF \A im \in self.imts : \E p \in 1..Len(imt_gmf) : imt_gmf[p] = im
           THEN [out |-> [o \in 1..Len(self.outputs) |->
                            [name |-> self.outputs[o],
                             pass |-> Len(imt_gmf)]],
                 raised |-> ""]
           ELSE [out |-> <<>>, raised |-> "ValueError"]

compute_call == Call("compute", compute(fnArg.self, fnArg.imt_gmf))

safely_call_events_without_reset(isgenfunc, k, used) ==
    LET RECURSIVE loop(_, _)
        loop(count, duration) ==
            LET res == Result_new(IF count < k THEN "value" ELSE "stop",
                                  ThisRun, 1, count, 0)
            IN  <<[op |-> "next", res |-> NoEnvelope,
                   duration |-> duration + 1],
                  [op |-> "send", res |-> res, duration |-> duration + 1]>>
                \o (IF res.msg = "TASK_ENDED" THEN <<>>
                    ELSE loop(count + 1, duration + 1))
    IN  loop(0, 0)

\* safely_call(func, args, task_no, mon) for a func that yields k values
\* (one value if it is not a generator function): what it does in order,
\* i.e. it sends the warning of check_mem_usage, advances the generator
\* object inside Result.new, sends the envelope with the monitor as it is
\* then, and resets the monitor; duration is mon.duration, which every
\* Result.new adds to
safely_call_events(isgenfunc, k, used) ==
    LET msg == check_mem_usage(used)
        steps == IF isgenfunc THEN k ELSE 1      \* gfunc yields func(*args)
        RECURSIVE loop(_, _)
        loop(count, duration) ==
            LET res == Result_new(IF count < steps THEN "value" ELSE "stop",
                                  ThisRun, 1, count, 0)
            IN  <<[op |-> "next", res |-> NoEnvelope,
                   duration |-> duration + 1],
                  [op |-> "send", res |-> res, duration |-> duration + 1],
                  [op |-> "reset", res |-> NoEnvelope, duration |-> 0]>>
                \o (IF loop_breaks(res) THEN <<>> ELSE loop(count + 1, 0))
    IN  IF msg = "MemoryError" THEN <<>>
        ELSE (IF msg # ""
              THEN <<[op |-> "send",
                      res |-> Result(NoneVal, ThisRun, 1, "", msg, 0),
                      duration |-> 0]>>
              ELSE <<>>)
             \o loop(0, 0)

safely_call_call ==
    Call("safely_call",
         safely_call_events(fnArg.isgenfunc, fnArg.k, fnArg.used))

Starmap_submit_dispatch_by_mode(num_tasks, distribute, subtask) ==
    [dist |-> distribute, backend |-> "given to the backend",
     pickled |-> distribute # "no", accounted |-> distribute # "no",
     fname |-> IF subtask THEN "func" ELSE "task_func"]

\* Starmap.submit(*args, func=func): the backend it takes from the submit
\* table, whether that backend runs safely_call itself, whether the
\* arguments are pickled and counted in self.sent, and under which name;
\* num_tasks is <<>> for None, subtask says that func is given
Starmap_submit_dispatch(num_tasks, distribute, subtask) ==
    LET dist == IF num_tasks = <<1>> THEN "no" ELSE distribute IN
    [dist |-> dist,
     backend |-> IF dist = "no" THEN "safely_call in the caller"
                 ELSE "given to the backend",
     pickled |-> dist # "no", accounted |-> dist # "no",
     fname |-> IF subtask THEN "func" ELSE "task_func"]

submit_call ==
    Call("submit", Starmap_submit_dispatch(fnArg.num_tasks, fnArg.distribute,
                                           fnArg.subtask))

NextFn ==
    \/ oq_distribute_call
    \/ submit_call
    \/ safely_call_call
    \/ compute_call
    \/ DataStore_call
    \/ Pickled_call
    \/ pickle_sequence_call
    \/ split_task_call
    \/ apply_split_call
    \/ submit_all_call

SpecFn == InitFn /\ [][NextFn]_vars

\* ------------------------------------------- the performance store
\* One iteration over an IterResult: fnArg is the object (the basename of
\* hdf5path as its parts, what iresults holds and whether it is a tuple),
\* fnOut the state of the iteration and of the scratch store hdf5path + '~'.
Basenames ==
    {<<"calc_", "1", ".hdf5">>, <<"tmp", "1", ".hdf5">>,
     <<"out_", "calc_", "1", ".hdf5">>}

startswith(name, prefix) == name # <<>> /\ Head(name) = prefix

IterInputs ==
    [hdf5path : Basenames,
     iresults : UNION {[1..n -> {"value", "failure", "exception"}] :
                          n \in 0..MaxResults},
     is_tuple : BOOLEAN]

InitIter ==
    /\ IdleStarmap
    /\ session = <<>> /\ insts = <<>> /\ net = <<>> /\ lastOp = <<>>
    /\ fnArg \in IterInputs
    /\ fnOut = [pc |-> "new", pos |-> 0, temp |-> "none", file |-> FALSE,
                merged |-> FALSE, raised |-> FALSE]

IterIdle ==
    /\ UNCHANGED <<starmapVars, workerVars, historyVars>>
    /\ UNCHANGED <<getArg, getOut, fnArg, sessionVars>>

IterResult_finally_keeps_file(it, st, exc) ==
    [st EXCEPT !.pc = "ended", !.raised = exc, !.temp = "closed",
               !.merged = startswith(it.hdf5path, "calc_")]

\* the finally clause of __iter__: dump for a calc_ file, close, remove
IterResult_finally(it, st, exc) ==
    [st EXCEPT !.pc = "ended", !.raised = exc,
               !.merged = startswith(it.hdf5path, "calc_"),
               !.temp = "closed", !.file = FALSE]

\* the first next() of __iter__: nothing to do for the empty tuple, else
\* the scratch file is created
IterResult_iter_start ==
    /\ fnOut.pc = "new"
    /\ fnOut' = IF fnArg.is_tuple /\ fnArg.iresults = <<>>
                THEN [fnOut EXCEPT !.pc = "ended"]
                ELSE [fnOut EXCEPT !.pc = "iterating", !.temp = "open",
                                   !.file = TRUE]
    /\ IterIdle

\* one pass of _iter: a value is yielded, an exception or a failure
\* envelope raises and the finally clause runs
IterResult_iter_next ==
    /\ fnOut.pc = "iterating"
    /\ fnOut.pos < Len(fnArg.iresults)
    /\ fnOut' = IF fnArg.iresults[fnOut.pos + 1] = "value"
                THEN [fnOut EXCEPT !.pos = @ + 1]
                ELSE IterResult_finally(fnArg,
                                        [fnOut EXCEPT !.pos = @ + 1], TRUE)
    /\ IterIdle

\* iresults is exhausted: the statistics are logged, the finally clause runs
IterResult_iter_end ==
    /\ fnOut.pc = "iterating"
    /\ fnOut.pos = Len(fnArg.iresults)
    /\ fnOut' = IterResult_finally(fnArg, fnOut, FALSE)
    /\ IterIdle

NextIter ==
    \/ IterResult_iter_start
    \/ IterResult_iter_next
    \/ IterResult_iter_end

SpecIter == InitIter /\ [][NextIter]_vars

\* ------------------------------------------- the progress of one run
\* One run of a Starmap as seen by its progress sink.  fnArg holds the
\* task list and num_cores; fnOut holds the instance (self), prev_percent
\* (<<>> while the attribute is missing), the messages given to
\* self.progress, and the jobs whose TASK_ENDED was pulled.
ProgressInputs ==
    [task_args : {[i \in 1..n |-> i] : n \in 0..(MaxChunks + 1)},
     num_cores : {<<>>} \cup {<<n>> : n \in 1..MaxCores}]

InitProgress ==
    /\ IdleStarmap
    /\ session = <<>> /\ insts = <<>> /\ net = <<>> /\ lastOp = <<>>
    /\ fnArg \in ProgressInputs
    /\ fnOut = [pc |-> "new", prev_percent |-> <<>>, progress |-> <<>>,
                ended |-> {}, nsub |-> 0,
                self |-> [queue |-> <<>>, tasks |-> <<>>, task_no |-> 0,
                          socket |-> FALSE, todo |-> 0, sent |-> <<>>]]

log_percent_on_change(st) ==
    LET total == Len(st.self.tasks)
        done == total - st.self.todo
        percent == (done * 100) \div total
    IN  IF st.prev_percent = <<>>
        THEN [st EXCEPT !.prev_percent = <<0>>,
                        !.progress = Append(@, [sent |-> total])]
        ELSE IF percent # st.prev_percent[1]
        THEN [st EXCEPT !.prev_percent = <<percent>>,
                        !.progress = Append(@, [percent |-> percent])]
        ELSE st

\* Starmap.log_percent: int(float(done) / total * 100) is the floor of
\* the quotient for the totals of this model
log_percent(st) ==
    LET total == Len(st.self.tasks)
        done == total - st.self.todo
        percent == (done * 100) \div total
    IN  IF st.prev_percent = <<>>
        THEN [st EXCEPT !.prev_percent = <<0>>,
                        !.progress = Append(@, [sent |-> total])]
        ELSE IF percent > st.prev_percent[1]
        THEN [st EXCEPT !.prev_percent = <<percent>>,
                        !.progress = Append(@, [percent |-> percent])]
        ELSE st

\* submit_all and _loop up to the while loop
Progress_start ==
    /\ fnOut.pc = "new"
    /\ LET s0 == IF fnArg.num_cores = <<>>
                 THEN submit_each(fnOut.self, fnArg.task_args)
                 ELSE [fnOut.self EXCEPT !.queue = fnArg.task_args]
           s1 == IF s0.queue # <<>>
                 THEN submit_each(
                          [s0 EXCEPT !.queue =
                                        rest_queue(@, fnArg.num_cores[1])],
                          first_args(s0.queue, fnArg.num_cores[1]))
                 ELSE s0
       IN  fnOut' = IF s1.socket
                    THEN [fnOut EXCEPT !.pc = "recv",
                                       !.self = [s1 EXCEPT !.todo =
                                                              Len(s1.tasks)]]
                    ELSE [fnOut EXCEPT !.pc = "done", !.self = s1]
    /\ IterIdle

\* the envelopes a running task of this run may push, and a TASK_ENDED of
\* another run
ProgressEnvelopes(st) ==
    LET running == {st.self.sent[i].job : i \in 1..Len(st.self.sent)}
                       \ st.ended
        fresh == Len(fnArg.task_args) + st.nsub + 1
    IN  {Result(NoneVal, ThisRun, j, "", "TASK_ENDED", 0) : j \in running}
        \cup {Result(Value("dict", j, 0, ""), ThisRun, j, "", "", 0) :
                 j \in running}
        \cup {Result(Value("functuple", fresh, 0, ""), ThisRun, j, "", "", 0) :
                 j \in IF st.nsub <= MaxSub THEN running ELSE {}}
        \cup {Result(NoneVal, OtherRun, 0, "", "TASK_ENDED", 0)}

\* one pass of the while loop of _loop; when todo becomes 0 the loop ends:
\* log_percent once more and self.tasks.clear()
Progress_recv ==
    /\ fnOut.pc = "recv"
    /\ \E res \in ProgressEnvelopes(fnOut) :
         LET b == branch(res, ThisRun) IN
         fnOut' =
           CASE b = "ended" ->
                  LET st == log_percent(
                                [fnOut EXCEPT !.self = task_ended(@),
                                              !.ended = @ \cup {res.job}])
                  IN  IF st.self.todo = 0
                      THEN [log_percent(st) EXCEPT !.pc = "done",
                                                   !.self.tasks = <<>>]
                      ELSE st
             [] b = "subtask" ->
                  [fnOut EXCEPT !.self.queue = Append(@, res.func_args),
                                !.nsub = @ + 1]
             [] OTHER -> fnOut
    /\ IterIdle

NextProgress ==
    \/ Progress_start
    \/ Progress_recv

SpecProgress == InitProgress /\ [][NextProgress]_vars

\* ============================================================== claims
\* a step of _loop that pulls an envelope from the socket
RecvStep ==
    /\ pc = "recv"
    /\ \/ staleLeft' # staleLeft
       \/ \E j \in Jobs : Len(chan'[j]) < Len(chan[j])

\* a step that calls the backend
SubmitStep == Len(sent') > Len(sent)

SubmitCount(j) == Cardinality({i \in 1..Len(sent) : sent[i].job = j})
SubmitCountAfter(j) == Cardinality({i \in 1..Len(sent') : sent'[i].job = j})
Submitted == {sent[i].job : i \in 1..Len(sent)}
Range(q) == {q[i] : i \in 1..Len(q)}

\* tasks submitted whose TASK_ENDED has not been received
InFlight == Cardinality(Submitted \ ended)

\* C1: with num_cores = N there are never more than N tasks in flight
\* (submitted, TASK_ENDED not yet received).
C1_AtMostNumCoresInFlight ==
    num_cores # <<>> => InFlight <= num_cores[1]

\* C2: with num_cores given, the loop first submits num_cores tasks and
\* queues the rest, and then every TASK_ENDED received while the queue is
\* not empty submits exactly one queued task.
C2_OneQueuedTaskPerSignal ==
    [][/\ (pc = "ready" /\ pc' # "ready" /\ num_cores # <<>>) =>
             /\ Len(sent') = Min(num_cores[1], Len(task_args))
             /\ Len(queue') = Len(task_args) - Len(sent')
       /\ (RecvStep /\ IsEndedEnvelope(lastRecv') /\ queue # <<>>) =>
             /\ Len(sent') = Len(sent) + 1
             /\ Len(queue') = Len(queue) - 1]_vars

\* C3: every safely_call that is over has sent its TASK_ENDED envelope,
\* which is received or waits in the socket, and the iteration goes on
\* until it terminates: as long as it has not completed (or been ended by
\* the exception of a failure envelope) the orchestrator or a worker can
\* take a step.
Progress ==
    \/ Starmap_submit_all
    \/ Starmap_loop_start
    \/ Starmap_loop_recv
    \/ IterResult_iter
    \/ \E t \in Jobs : safely_call(t)

C3_EveryTaskDeliversTaskEnded ==
    /\ \A t \in Jobs :
          wpc[t] \in {"ended", "crashed"} =>
             \/ t \in ended
             \/ chan[t] # <<>> /\ Last(chan[t]).msg = "TASK_ENDED"
    /\ pc \in {"done", "raised"} \/ ENABLED Progress

\* C4: the envelopes pushed by one safely_call hold at most one
\* TASK_ENDED envelope, nothing comes after it, and an invocation that
\* has returned (also after a failure of the task function) has pushed it.
TaskEndedAt == {i \in 1..Len(pushed) : pushed[i].msg = "TASK_ENDED"}

C4_TaskEndedOnceAndLast ==
    /\ Cardinality(TaskEndedAt) <= 1
    /\ \A i \in TaskEndedAt : i = Len(pushed)
    /\ wpc[CallJob] = "ended" => Cardinality(TaskEndedAt) = 1
    /\ \A i \in 1..Len(pushed) :
          pushed[i].tb_str # "" =>
             (wpc[CallJob] = "ended" \/ ENABLED safely_call_step)

C4_Witness ==
    /\ wpc[CallJob] = "ended"
    /\ \E i \in 1..Len(pushed) : pushed[i].val.cls = "ValueError"
    /\ Last(pushed).msg = "TASK_ENDED"

\* C5: every chunk is submitted at most once, and exactly once when the
\* run has completed, with num_cores or without; no job (chunk or
\* subtask, failed or not) is ever submitted twice.
C5_EveryChunkSubmittedOnce ==
    /\ \A j \in Jobs : SubmitCount(j) <= 1
    /\ pc = "done" => \A i \in 1..Len(task_args) :
                         SubmitCount(task_args[i]) = 1

C5_Witness ==
    /\ pc = "done"
    /\ num_cores = <<1>>
    /\ Len(task_args) = MaxChunks
    /\ \E j \in Jobs : j > MaxChunks /\ SubmitCount(j) = 1

\* C6 as stated: receiving a subtask envelope submits the subtask and
\* increments the outstanding-task counter.
C6_SubtaskSubmittedAtOnce ==
    [][(RecvStep /\ IsSubtaskEnvelope(lastRecv')) =>
          /\ SubmitCountAfter(lastRecv'.func_args) = 1
          /\ todo' = todo + 1]_vars

\* C6 amended: receiving a subtask envelope appends the subtask to the
\* queue, without submitting it, changing the counter or yielding it; a
\* job leaves the queue only by being submitted; the run does not complete
\* with a queued job or before the TASK_ENDED of every submitted job has
\* been received.
C6_SubtaskQueuedThenSubmitted ==
    [][/\ (RecvStep /\ IsSubtaskEnvelope(lastRecv')) =>
             /\ queue' = Append(queue, lastRecv'.func_args)
             /\ UNCHANGED <<todo, sent, tasks, yielded, cur, raised>>
             /\ pc' = "recv"
       /\ \A j \in Range(queue) \ Range(queue') :
             SubmitCountAfter(j) = SubmitCount(j) + 1
       /\ pc' = "done" =>
             /\ queue' = <<>>
             /\ \A i \in 1..Len(sent') : sent'[i].job \in ended']_vars

C6_Witness ==
    /\ pc = "done"
    /\ \E j \in ended : j > MaxChunks

\* C7: an envelope of another run is discarded whatever its kind: nothing
\* is yielded or raised, and the counter, the queue and the task list are
\* unchanged.
C7_StaleEnvelopeDiscarded ==
    [][(RecvStep /\ lastRecv'.calc # calc_id) =>
          /\ UNCHANGED <<todo, queue, tasks, task_no, sent>>
          /\ UNCHANGED <<yielded, raised, cur>>
          /\ pc' = "recv"]_vars

C7_Witness ==
    /\ lastRecv.calc = OtherRun
    /\ lastRecv.msg = "TASK_ENDED"
    /\ todo > 0
    /\ pc = "recv"

\* C8: the task numbers given to the backend are 0, 1, 2, ... in the
\* order of the submit calls.
C8_TaskNumbersIncrease ==
    \A i \in 1..Len(sent) : sent[i].no = i - 1

C8_Witness ==
    /\ num_cores # <<>>
    /\ Len(sent) = MaxChunks + MaxSub
    /\ sent[Len(sent)].job <= MaxChunks
    /\ \E i \in 1..Len(sent) : sent[i].job > MaxChunks

\* C9: Result.get raises the class of the exception of a failure
\* envelope, RuntimeError for KeyError and its subclasses, with a message
\* holding the traceback and the text; it returns the value of a success
\* envelope.
Holds(msg, part) == \E i \in 1..Len(msg) : msg[i] = part

C10_RaisedWhenUnwrapped ==
    [][/\ (pc' = "raised" /\ pc # "raised") =>
             /\ pc = "unwrap"
             /\ IsFailureEnvelope(cur)
             /\ raised'.raises
             /\ yielded' = arrived
       /\ (pc = "unwrap" /\ pc' # "unwrap" /\ IsFailureEnvelope(cur)) =>
             /\ pc' = "raised"
             /\ yielded' = yielded
       /\ (RecvStep /\ IsFailureEnvelope(lastRecv')) =>
             /\ pc' = "unwrap"
             /\ cur' = lastRecv'
             /\ raised' = NothingRaised
       /\ SubmitStep => raised' = NothingRaised]_vars

C10_Witness ==
    /\ pc = "raised"
    /\ raised.raises
    /\ Len(yielded) >= 1

\* C11: Result.new lets no exception (instance of Exception) of func
\* escape: it returns the TASK_ENDED envelope exactly when func raises
\* StopIteration, a failure envelope (the exception as value, a traceback)
\* exactly when func raises another Exception, and otherwise a success
\* envelope with the value returned, no traceback and no msg.
C11_NewAlwaysReturnsEnvelope ==
    fnOut # <<>> /\ fnArg.outcome # "interrupt" =>
        LET a == fnArg
            r == fnOut[1]
            stops == a.outcome = "stop"
            fails == a.outcome = "raise"
        IN /\ r.escaped = ""
           /\ r.res.calc = a.calc /\ r.res.job = a.job
           /\ r.res.msg = "TASK_ENDED" <=> stops
           /\ r.res.tb_str # "" <=> fails
           /\ fails => r.res.val.cls = "ValueError" /\ r.res.msg = ""
           /\ (~stops /\ ~fails) =>
                 /\ r.res.val.cls = CASE a.outcome = "subtask" -> "functuple"
                                      [] a.outcome = "none" -> "NoneType"
                                      [] a.outcome = "tuple" -> "tuple"
                                      [] a.outcome = "emptytuple" -> "emptytuple"
                                      [] OTHER -> "dict"
                 /\ r.res.msg = ""

\* C12: a safely_call that finds the memory above the hard limit is
\* aborted and a MemoryError failure envelope is sent to the orchestrator
\* for its task.
C12_HardLimitSendsFailure ==
    wpc[CallJob] = "crashed" =>
        \E i \in 1..Len(pushed) :
            /\ pushed[i].val.cls = "MemoryError"
            /\ pushed[i].tb_str # ""

\* C13: a safely_call sends at most one memory warning, before anything
\* else, and an invocation that sent it goes on to its TASK_ENDED
\* envelope; the orchestrator that pulls a warning of its run yields
\* nothing and changes neither its counter nor its queue.
IsWarning(res) == res.msg \notin {"", "TASK_ENDED"}

C13_SoftLimitWarnsOnce ==
    [][/\ \A t \in Jobs :
             (wpc[t] = "start" /\ wpc'[t] # "start") =>
                LET out == chan'[t]
                    warns == {i \in 1..Len(out) : IsWarning(out[i])}
                IN /\ Cardinality(warns) <= 1
                   /\ warns # {} =>
                         /\ warns = {1}
                         /\ wpc'[t] = "ended"
                         /\ Last(out).msg = "TASK_ENDED"
       /\ (RecvStep /\ lastRecv'.calc = calc_id /\ IsWarning(lastRecv')) =>
             /\ UNCHANGED <<todo, queue, tasks, task_no, sent>>
             /\ UNCHANGED <<yielded, raised, cur, arrived, ended>>
             /\ pc' = "recv"]_vars

C13_Witness ==
    /\ pc = "recv"
    /\ lastRecv.calc = calc_id
    /\ IsWarning(lastRecv)
    /\ todo > 0
    /\ wpc[lastRecv.job] = "ended"

\* C14: every pass of the loop of safely_call sends exactly one envelope;
\* when the send of an envelope fails, a failure envelope holding the
\* error of the send, with the count of the pass, is sent in its place,
\* and the loop goes on until it has sent TASK_ENDED.
PassEnvelopes == SelectSeq(pushed, LAMBDA r : ~IsWarning(r))

C14_SendFailureRewrapped ==
    /\ Len(PassEnvelopes) = gcount[CallJob]
    /\ \A i \in 1..Len(PassEnvelopes) :
          LET r == PassEnvelopes[i] IN
          /\ r.msg = "TASK_ENDED" \/ r.count = i - 1
          /\ r.val.cls = "OverflowError" =>
                /\ r.tb_str = "traceback of a send"
                /\ r.msg = ""
                /\ r.job = CallJob
                /\ wpc[CallJob] = "ended" \/ ENABLED safely_call_step
    /\ wpc[CallJob] = "ended" => Last(pushed).msg = "TASK_ENDED"

C14_Witness ==
    /\ wpc[CallJob] = "ended"
    /\ \E i \in 1..Len(pushed) : pushed[i].val.cls = "OverflowError"
    /\ Last(pushed).msg = "TASK_ENDED"

\* C15: a Starmap.init that follows a Starmap.init with the same mode
\* changes nothing in the session (mode, pool, dask client, pids) and
\* creates no pool and no client.
C15_SecondInitIsNoOp ==
    [][(lastOp.op = "init" /\ lastOp' = lastOp) => session' = session]_vars

C17_InstancesDoNotInterfere ==
    \A i \in Instances :
        LET self == insts[i] IN
        /\ self.task_no > 0 => self.port # 0
        /\ \A k \in Instances \ {i} :
              self.port # 0 => insts[k].port # self.port
        /\ self.dist # "" =>
              self.dist = IF self.num_tasks = 1 THEN "no" ELSE self.mode
        /\ \A k \in 1..Len(self.got) : self.got[k].inst = i

\* C18: when the run has completed, every value the tasks produced has
\* arrived, once, and reduce(add, acc) holds for every letter its number
\* in acc plus its number in every value, whatever the order of arrival;
\* for the chunks 'hello' and 'world' and an empty acc it is
\* h:1 e:1 l:3 o:2 w:1 r:1 d:1.
RECURSIVE Copies(_, _, _)
Copies(letter, values, n) ==
    IF n = 0 THEN 0
    ELSE CopiesIn(letter, Counter(values[n])) + Copies(letter, values, n - 1)

Letters == {"h", "e", "l", "o", "w", "r", "d", "x", "z"}
HelloWorld ==
    ("h" :> 1) @@ ("e" :> 1) @@ ("l" :> 3) @@ ("o" :> 2) @@ ("w" :> 1)
    @@ ("r" :> 1) @@ ("d" :> 1)

C18_ReduceFoldsEveryValue ==
    pc = "done" =>
        /\ \A j \in Jobs : chan[j] = <<>>
        /\ Submitted = ended
        /\ yielded = arrived
        /\ Cardinality(Range(arrived)) = Len(arrived)
        /\ \A acc \in {EmptyBag, ("z" :> 1)} : \A letter \in Letters :
              CopiesIn(letter, IterResult_reduce(yielded, acc)) =
                 CopiesIn(letter, acc) + Copies(letter, arrived, Len(arrived))
        /\ (ended = {1, 2} /\ {arrived[i].j : i \in 1..Len(arrived)} = {1, 2}
            /\ Len(arrived) = 2) =>
              IterResult_reduce(yielded, EmptyBag) = HelloWorld

C18_Witness ==
    /\ pc = "done"
    /\ ended = {1, 2}
    /\ Len(yielded) = 2
    /\ yielded[1].j = 2 /\ yielded[2].j = 1
    /\ IterResult_reduce(yielded, EmptyBag) = HelloWorld

C20_NothingSubmittedBeforeIteration ==
    pc \in {"new", "ready"} =>
        /\ sent = <<>>
        /\ \A j \in Jobs : wpc[j] = "idle"

\* C21: an exception raised by the construction of a Starmap and the
\* submission of its tasks is raised before any task has been given to a
\* backend, and an invalid distribution mode raises one.
Called(fn) == fnOut # <<>> /\ "fn" \in DOMAIN fnArg /\ fnArg.fn = fn

C21_ConfigurationErrorsBeforeSubmit ==
    Called("submit_all") =>
        /\ fnOut[1].raised # "" => fnOut[1].submitted = 0
        /\ (\/ fnArg.distribute = "bogus"
            \/ fnArg.distribute = "" /\ fnArg.env = "bogus") =>
              fnOut[1].raised # ""

\* C22: oq_distribute returns 'processpool' when OQ_DISTRIBUTE is not
\* set, the lower-cased value when that is one of the six modes, and
\* raises ValueError for every other value.
C22_OqDistributeLowerCases ==
    Called("oq_distribute") =>
        LET out == fnOut[1]
            env == fnArg.env
        IN /\ env = "" => out = "processpool"
           /\ env \in {"no", "NO"} => out = "no"
           /\ env \in {"processpool", "ProcessPool"} => out = "processpool"
           /\ env \in {"threadpool", "THREADPOOL"} => out = "threadpool"
           /\ env \in {"celery", "Celery"} => out = "celery"
           /\ env \in {"zmq", "ZMQ"} => out = "zmq"
           /\ env \in {"dask", "Dask"} => out = "dask"
           /\ env \in {"bogus", "BOGUS", " no", "pool"} => out = "ValueError"
           /\ out \in Modes \cup {"ValueError"}

C22_Witness ==
    /\ Called("oq_distribute")
    /\ fnArg.env = "THREADPOOL"
    /\ fnOut[1] = "threadpool"

\* C23: the chunks given to the tasks of Starmap.apply partition the
\* input: every element is in exactly one chunk, no chunk is empty, and
\* the weights of the chunks add up to the weight of the input.
RECURSIVE Flat(_)
Flat(seqs) == IF seqs = <<>> THEN <<>> ELSE Head(seqs)[1] \o Flat(Tail(seqs))

C23_ChunksPartitionInput ==
    Called("apply") =>
        LET items == fnArg.items
            placed == Flat(fnOut[1])
        IN /\ Len(placed) = Len(items)
           /\ Range(placed) = 1..Len(items)
           /\ \A t \in 1..Len(fnOut[1]) : fnOut[1][t][1] # <<>>
           /\ Weight(items, placed) =
                 Weight(items, [i \in 1..Len(items) |-> i])

C23_Witness ==
    /\ Called("apply")
    /\ Len(fnArg.items) = MaxItems
    /\ Len(fnOut[1]) >= 2
    /\ \E i, j \in 1..Len(fnArg.items) : fnArg.items[i].k # fnArg.items[j].k

\* C24: for two or more elements split_task yields the result of the
\* heaviest element alone, then sub-tasks, then the result of the last
\* block; the blocks hold every element exactly once and their weights
\* add up to the weight of the input.
RECURSIVE FlatBlocks(_)
FlatBlocks(pieces) ==
    IF pieces = <<>> THEN <<>>
    ELSE Head(pieces).block \o FlatBlocks(Tail(pieces))

C24_SplitTaskPartitionsInput ==
    Called("split_task") /\ Len(fnArg.items) >= 2 =>
        LET items == fnArg.items
            pieces == fnOut[1].yielded
            placed == FlatBlocks(pieces)
        IN /\ fnOut[1].raised = ""
           /\ Len(pieces) >= 2
           /\ pieces[1].kind = "result" /\ Len(pieces[1].block) = 1
           /\ \A j \in 1..Len(items) :
                 items[j].w <= items[pieces[1].block[1]].w
           /\ \A b \in 2..(Len(pieces) - 1) : pieces[b].kind = "subtask"
           /\ pieces[Len(pieces)].kind = "result"
           /\ \A b \in 1..Len(pieces) : pieces[b].block # <<>>
           /\ Len(placed) = Len(items)
           /\ Range(placed) = 1..Len(items)
           /\ Weight(items, placed) =
                 Weight(items, [i \in 1..Len(items) |-> i])

C24_Witness ==
    /\ Called("split_task")
    /\ Len(fnArg.items) = MaxItems
    /\ Len(fnOut[1].yielded) = 3
    /\ fnOut[1].yielded[2].kind = "subtask"
    /\ fnArg.items[1].w < fnArg.items[2].w

\* C25: for one element split_task yields exactly the result of func on
\* the original arguments and no sub-task; for an empty sequence it
\* raises an error, calls func on nothing and yields nothing.
C25_SplitTaskSmallInputs ==
    Called("split_task") =>
        /\ Len(fnArg.items) = 1 =>
              /\ fnOut[1].raised = ""
              /\ fnOut[1].yielded =
                    <<[kind |-> "result", block |-> <<1>>,
                       args |-> fnArg.rest]>>
        /\ Len(fnArg.items) = 0 =>
              /\ fnOut[1].raised # ""
              /\ fnOut[1].yielded = <<>>

C25_Witness ==
    /\ Called("split_task")
    /\ fnArg.items = <<>>
    /\ fnOut[1].raised = "AssertionError"

C25_WitnessOne ==
    /\ Called("split_task")
    /\ Len(fnArg.items) = 1
    /\ Len(fnOut[1].yielded) = 1

C28_PickledRoundTrip ==
    Called("Pickled") /\ fnArg.obj.t # "function" =>
        /\ "raised" \notin DOMAIN fnOut[1]
        /\ fnOut[1].obj = fnArg.obj
        /\ fnOut[1].len = Len(dumps(fnArg.obj))
        /\ fnOut[1].self.pik = dumps(fnArg.obj)
        /\ fnOut[1].after = fnOut[1].self

C28_Witness ==
    /\ Called("Pickled")
    /\ fnArg.obj.t = "tuple"
    /\ Len(fnArg.obj.items) = 2
    /\ fnOut[1].len = 8
    /\ fnOut[1].obj.items[1] # fnOut[1].obj.items[2]

\* C29: get_last_calc_id(datadir) is the largest N with an entry calc_N in
\* the directory given as argument, 0 if there is none, and
\* DataStore(calc_id=None, datadir=d) takes that number plus one.
LastCalc(names) ==
    LET ids == {f.n : f \in {g \in names : g.stem = "calc_" /\ g.ext = ""}}
    IN  IF ids = {} THEN 0 ELSE CHOOSE n \in ids : \A m \in ids : m <= n

C29_LastCalcOfGivenDirectory ==
    Called("DataStore") =>
        /\ fnOut[1].raised = ""
        /\ fnOut[1].value =
              LastCalc(fnArg.listdir[fnArg.datadir])
                 + (IF fnArg.calc_id = <<>> THEN 1 ELSE 0)

\* C30: whenever compute of a subclass of SecondaryPeril returns, it
\* returns as many arrays as its class has outputs.
C30_ComputeReturnsOneArrayPerOutput ==
    Called("compute") /\ fnOut[1].raised = "" =>
        Len(fnOut[1].out) = Len(fnArg.self.outputs)

\* C31: while Starmap._loop is in its receive loop, todo is the number of
\* submitted tasks whose TASK_ENDED has not been processed, and is not 0;
\* when the loop has ended by itself every submitted task has ended.
C31_TodoCountsRunningTasks ==
    /\ pc \in {"recv", "unwrap"} =>
          todo = Len(sent) - Cardinality(ended) /\ todo > 0
    /\ pc = "done" => Cardinality(ended) = Len(sent) /\ queue = <<>>

C31_Witness ==
    /\ pc = "recv"
    /\ num_cores = <<1>>
    /\ todo = 2
    /\ Cardinality(ended) = 1
    /\ Len(sent) = 3
    /\ staleLeft = 0

C33_EveryReturnedValueIsYielded ==
    fnOut # <<>> /\ "outcome" \in DOMAIN fnArg =>
        LET a == fnArg
            did == func_call(a.outcome, a.job, a.count, a.sub)
        IN  did.raises = "" =>
               /\ fnOut[1].escaped = ""
               /\ fnOut[1].res.val = did.val
               /\ fnOut[1].res.tb_str = ""
               /\ branch(fnOut[1].res, a.calc) = "yield"

\* C34: a safely_call that gets past the memory check, for a generator
\* that yields k values (a plain function counts as k = 1), sends k value
\* envelopes with the counts 0..k-1 and then TASK_ENDED; each pass
\* advances the generator, sends its envelope and resets the monitor, so
\* every envelope is sent with the telemetry of its own pass only.
C34_OneEnvelopePerAdvance ==
    Called("safely_call") /\ fnArg.used # "above_hard" =>
        LET k == IF fnArg.isgenfunc THEN fnArg.k ELSE 1
            all == fnOut[1]
            first == IF fnArg.used = "above_soft" THEN 1 ELSE 0
            ev == [i \in 1..(Len(all) - first) |-> all[i + first]]
        IN /\ first = 1 => all[1].op = "send" /\ IsWarning(all[1].res)
           /\ Len(ev) = 3 * (k + 1)
           /\ \A p \in 0..k :
                 /\ ev[3 * p + 1].op = "next"
                 /\ ev[3 * p + 2].op = "send"
                 /\ ev[3 * p + 2].duration = 1
                 /\ ev[3 * p + 3].op = "reset"
                 /\ ev[3 * p + 3].duration = 0
                 /\ LET res == ev[3 * p + 2].res IN
                    IF p < k
                    THEN /\ res.msg = "" /\ res.tb_str = ""
                         /\ res.func_args = 0
                         /\ res.count = p
                         /\ res.val = Value("dict", 1, p, "")
                    ELSE res.msg = "TASK_ENDED"

C34_Witness ==
    /\ Called("safely_call")
    /\ fnArg.isgenfunc
    /\ fnArg.k = MaxYield + 2
    /\ fnArg.used = "below_soft"
    /\ Len(fnOut[1]) = 3 * (MaxYield + 3)
    /\ fnOut[1][8].res.count = 2

\* C35: for two or more elements split_task runs func inline exactly
\* twice, with the monitor: first on the heaviest element alone and last
\* on the last block; every other block is yielded between the two as a
\* sub-task with the fixed arguments and without the monitor.
C35_SubtasksBetweenTwoInlineResults ==
    Called("split_task") /\ Len(fnArg.items) >= 2 =>
        LET pieces == fnOut[1].yielded
            n == Len(pieces)
            inline == {b \in 1..n : pieces[b].kind = "result"}
        IN /\ n >= 2
           /\ inline = {1, n}
           /\ pieces[1].block = <<Head(sorted_reverse(fnArg.items))>>
           /\ \A b \in inline :
                 pieces[b].args = fnArg.rest /\ Last(pieces[b].args) = "mon"
           /\ \A b \in 2..(n - 1) :
                 /\ pieces[b].kind = "subtask"
                 /\ pieces[b].args \o <<"mon">> = fnArg.rest

C35_Witness ==
    /\ Called("split_task")
    /\ Len(fnOut[1].yielded) = 3
    /\ fnOut[1].yielded[2].kind = "subtask"
    /\ fnOut[1].yielded[2].args = <<"x">>
    /\ fnOut[1].yielded[3].args = <<"x", "mon">>

\* C36 as stated: with exactly one task every submit, of a subtask too,
\* goes to the 'no' backend, a synchronous call with arguments that are
\* neither pickled nor counted; with any other number of tasks the
\* backend of the configured mode is used and the arguments are pickled.
C36_OtherCountsPickleArguments ==
    Called("submit") =>
        IF fnArg.num_tasks = <<1>>
        THEN /\ fnOut[1].dist = "no"
             /\ fnOut[1].backend = "safely_call in the caller"
             /\ ~fnOut[1].pickled /\ ~fnOut[1].accounted
        ELSE /\ fnOut[1].dist = fnArg.distribute
             /\ fnOut[1].pickled

\* C36 amended: as above, but with another number of tasks the arguments
\* are pickled and counted exactly when the configured mode is not 'no'.
C36_SingleTaskRunsInCaller ==
    Called("submit") =>
        /\ fnOut[1].dist = IF fnArg.num_tasks = <<1>> THEN "no"
                           ELSE fnArg.distribute
        /\ fnOut[1].backend = "safely_call in the caller"
              <=> fnOut[1].dist = "no"
        /\ fnOut[1].pickled <=> fnOut[1].dist # "no"
        /\ fnOut[1].accounted <=> fnOut[1].dist # "no"

C36_Witness ==
    /\ Called("submit")
    /\ fnArg.num_tasks = <<1>>
    /\ fnArg.subtask
    /\ fnArg.distribute = "processpool"
    /\ fnOut[1].dist = "no"

\* the percentages given to the progress sink so far, in order
Percentages ==
    LET RECURSIVE pick(_)
        pick(ms) == IF ms = <<>> THEN <<>>
                    ELSE IF "percent" \in DOMAIN Head(ms)
                    THEN <<Head(ms).percent>> \o pick(Tail(ms))
                    ELSE pick(Tail(ms))
    IN  pick(fnOut.progress)

\* C37: the percentages reported during one run are strictly increasing
\* values in 1..100, also when subtasks enlarge the total, and a run that
\* drained to completion has reported 100 exactly once, as its last
\* progress message.
C37_PercentagesIncreaseTo100 ==
    /\ \A i \in 1..Len(Percentages) :
         /\ Percentages[i] \in 1..100
         /\ i > 1 => Percentages[i - 1] < Percentages[i]
    /\ fnOut.pc = "done" /\ fnOut.self.socket =>
         /\ fnOut.progress # <<>>
         /\ Last(fnOut.progress) = [percent |-> 100]
         /\ Cardinality({i \in 1..Len(Percentages) :
                            Percentages[i] = 100}) = 1

C37_Witness ==
    /\ fnOut.pc = "done"
    /\ fnOut.self.task_no = Len(fnArg.task_args) + 2
    /\ Percentages = <<66, 80, 100>>

\* C38: after any sequence of init and shutdown calls, while the mode is
\* 'processpool' the session holds a process pool, while it is
\* 'threadpool' it holds a thread pool, and the pids are empty whenever
\* the session holds no process pool.
C38_PoolMatchesMode ==
    /\ session.distribute = "processpool" =>
         session.pool # <<>> /\ session.pool[1].kind = "process"
    /\ session.distribute = "threadpool" =>
         session.pool # <<>> /\ session.pool[1].kind = "thread"
    /\ (session.pool = <<>> \/ session.pool[1].kind # "process") =>
         session.pids = <<>>

\* C39: a Starmap with an empty task list, with or without num_cores,
\* submits no task, binds no socket, never waits for an envelope; its
\* iteration goes on to its end, yields nothing, and reduce returns the
\* accumulator it was given.
C39_EmptyTaskListEndsAtOnce ==
    task_args = <<>> =>
        /\ sent = <<>> /\ tasks = <<>> /\ queue = <<>>
        /\ ~socket
        /\ pc \in {"new", "ready", "done"}
        /\ pc = "new" => ENABLED Starmap_submit_all
        /\ pc = "ready" => ENABLED Starmap_loop_start
        /\ yielded = <<>>
        /\ \A acc \in {EmptyBag, HelloWorld} :
             IterResult_reduce(yielded, acc) = acc

C39_Witness ==
    /\ task_args = <<>>
    /\ num_cores # <<>>
    /\ pc = "done"

====
